---- MODULE Spec2Model ----
(***************************************************************************)
(* Control plane of the shuttle gateway: project lifecycle, task worker,   *)
(* gateway API handlers (gateway/src/api/latest.rs), health scheduler      *)
(* (gateway/src/main.rs) and the build queue.                              *)
(***************************************************************************)
EXTENDS Integers, Sequences, FiniteSets, TLC

VARIABLES
    projects,       \* ProjectStore: project name -> record or NoProject
    container,      \* ContainerRuntime inventory: project name -> container state
    deployments,    \* per-project deployer: deployment id -> DeploymentState or "None"
    resources,      \* per-project deployer: resource types still provisioned
    queue,          \* the worker's channel of tasks (FIFO)
    executing,      \* tasks the worker is polling right now
    slot,           \* per-project exclusive slot: id of the task holding it, 0 when free
    reqs,           \* in-flight requests of the gateway API, one record per connection
    amb,            \* the health scheduler ("ambulance") loop of main.rs
    resp,           \* the last response of the gateway API
    budget,         \* number of requests that may still arrive
    running_builds, \* RouterState.running_builds: build id -> "none" | "live" | "expired"
    cpus,           \* num_cpus::get() of the host
    load,           \* the last LoadResponse produced by the build queue
    now,            \* the clock (ASN1Time::now), in ticks of 1 / TicksPerDay day
    custom_domains, \* CustomDomainStore: fqdn -> stored certificate or NoCert
    cert_resolver,  \* GatewayCertResolver: fqdn or "default" -> served certificate
    ssl_pem,        \* ssl.pem in the state location: the gateway's own certificate
    tls,            \* the last response of a renewal handler
    spans,          \* deployer: every state-change span entered so far, in order
    states,         \* deployer: the DeploymentStateUpdates handed to the StateRecorder
    logs,           \* deployer: the LogItems handed to the LogRecorder
    stage,          \* deployer: where the DeploymentManager has each deployment
    backlog,        \* tasks in the worker's channel that belong to other projects
    closed,         \* the worker has stopped and dropped the channel's receiver
    health,         \* the gateway's entry in the last response of GET /
    paging,         \* the last paginated list request: its query and its outcome
    bounced         \* the last request to the bouncer and what came of it

vars == <<projects, container, deployments, resources, queue, executing, slot,
          reqs, resp, amb, budget, running_builds, cpus, load,
          now, custom_domains, cert_resolver, ssl_pem, tls,
          spans, states, logs, stage, backlog, closed, health, paging, bounced>>

projVars  == <<projects, container, deployments, resources>>
workVars  == <<queue, executing, slot>>
loadVars  == <<running_builds, cpus, load>>
tlsVars   == <<now, custom_domains, cert_resolver, ssl_pem, tls>>
\* what the project handlers and the build queue never touch
depVars   == <<spans, states, logs, stage>>
chanVars  == <<backlog, closed, health>>
restVars  == <<chanVars, paging, bounced>>
auxVars   == <<tlsVars, depVars, restVars>>

----------------------------------------------------------------------------
(* Bounds of the model *)

MaxTasks == 3
MaxBudget == 3
MaxReqs == 2
MaxDeployments == 2
NumBuildIds == 3
TicksPerDay == 2
MaxNow == 4
MaxSpans == 7
\* number of distinct initial keys
NumKeys == 2
\* width of the unsigned integers of the paginated routes (u32 in the code)
UBits == 8
CertDays == 90
SoftLimit == 2
HardLimit == 3
CchLimit == 1

(* Program constants *)

MAX_PROJECTS_DEFAULT == 3
MAX_PROJECTS_EXTRA == 15
SVC_DEGRADED_THRESHOLD == 128
WORKER_QUEUE_SIZE == 2048
MAX_RESTARTS == 3
CCH_IDLE_MINUTES == 5
RENEWAL_VALIDITY_THRESHOLD_IN_DAYS == 30

----------------------------------------------------------------------------
(* Callers and project names *)

Tier(u) == IF u = "trinity" THEN "Pro" ELSE "Basic"

is_admin(u) == u = "root"

AllNames ==
    {"matrix", "reloaded", "project", "resurrections", "cch23-project", "cch23-matrix"}

is_cch_project(n) == n \in {"cch23-project", "cch23-matrix"}

NoProject == [tag |-> "NoProject"]

\* the initial keys (random 16-character secrets); the names are
\* interchangeable, so a creation is given the first
Keys == 1 .. NumKeys
FirstKey == 1

\* ProjectStore::create(name, owner, id, fqdn, idle_minutes, initial_key): a
\* record as it is created, with the gateway's own name for it
ProjectRecord(u, st, idle) ==
    [owner |-> u, state |-> st, idle |-> idle, key |-> FirstKey, fqdn |-> "default"]

ReqIds == 1 .. MaxReqs
TaskIds == 1 .. MaxTasks
DeploymentIds == 1 .. MaxDeployments
BuildIds == 1 .. NumBuildIds

ResourceTypes == {"database", "secrets"}

Min(S) == CHOOSE x \in S : \A y \in S : x <= y

SeqToSet(s) == {s[i] : i \in 1 .. Len(s)}

----------------------------------------------------------------------------
(* ProjectFSM *)

St(tag, n, ctx) == [tag |-> tag, n |-> n, ctx |-> ctx]

Simple(tag) == St(tag, 0, FALSE)

\* states whose record carries a container handle
HasContainer(s) ==
    \/ s.tag \in {"Starting", "Restarting", "Started", "Ready", "Rebooting",
                  "Stopping", "Stopped", "Recreating", "Destroying"}
    \/ s.tag = "Errored" /\ s.ctx

IsDone(s) == s.tag \in {"Ready", "Stopped", "Destroyed", "Errored"}

Errored(s) == St("Errored", 0, HasContainer(s))

\* a state machine that restarts an exited container without counting
can_restart_always(n) == TRUE

\* Starting{n}: the container may be restarted once more
can_restart(n) == n < MAX_RESTARTS

\* One reconcile step of the state machine against the runtime.
\* Returns the next state and the runtime state the step leaves behind.
Refresh(s, c, probe, idle) ==
    CASE s.tag = "Creating" ->
            [state |-> St("Starting", 0, FALSE), container |-> "Created"]
      [] s.tag = "Recreating" ->
            [state |-> St("Starting", 0, FALSE), container |-> "Created"]
      [] s.tag = "Starting" ->
            IF c \in {"Created", "Running"}
            THEN [state |-> Simple("Started"), container |-> "Running"]
            ELSE IF c = "Exited"
            THEN IF can_restart(s.n)
                 THEN [state |-> St("Restarting", s.n + 1, FALSE), container |-> c]
                 ELSE [state |-> Errored(s), container |-> c]
            ELSE [state |-> Errored(s), container |-> c]
      [] s.tag = "Restarting" ->
            IF c = "NotFound"
            THEN [state |-> Errored(s), container |-> c]
            ELSE [state |-> St("Starting", s.n, FALSE), container |-> "Running"]
      [] s.tag = "Started" ->
            IF c = "Running"
            THEN [state |-> IF probe THEN Simple("Ready") ELSE s, container |-> c]
            ELSE [state |-> Errored(s), container |-> c]
      [] s.tag = "Ready" ->
            IF c = "NotFound"
            THEN [state |-> Errored(s), container |-> c]
            ELSE IF (~probe \/ c # "Running") /\ idle > 0
            THEN [state |-> Simple("Rebooting"), container |-> c]
            ELSE [state |-> s, container |-> c]
      [] s.tag = "Rebooting" ->
            IF c = "NotFound"
            THEN [state |-> Errored(s), container |-> c]
            ELSE [state |-> Simple("Stopping"), container |-> "Exited"]
      [] s.tag = "Stopping" ->
            IF c = "NotFound"
            THEN [state |-> Errored(s), container |-> c]
            ELSE [state |-> Simple("Stopped"), container |-> "Exited"]
      [] s.tag = "Destroying" ->
            [state |-> Simple("Destroyed"), container |-> "NotFound"]
      [] OTHER -> [state |-> s, container |-> c]

----------------------------------------------------------------------------
(* Task steps *)

Task(id, name, steps, notify) ==
    [id |-> id, project |-> name, steps |-> steps, notify |-> notify, fqdn |-> "none"]

NoWaiter == 0
AmbWaiter == -1

\* task::destroy(): any state is sent to Destroying; a no-op on Destroyed
destroy(s) == IF s.tag = "Destroyed" THEN s ELSE St("Destroying", 0, FALSE)

\* task::start(): wake of a stopped project
start(s) == IF s.tag = "Stopped" THEN St("Starting", 0, FALSE) ELSE s

\* task::restart(project_id): re-entry of a project that is not usable
restart(s) == IF HasContainer(s) THEN St("Recreating", 0, FALSE) ELSE Simple("Creating")

\* the closure of request_custom_domain_acme_certificate:
\* TaskResult::Done(Project::Creating(creating))
create_with_fqdn(s) == Simple("Creating")

\* ProjectCreating::new_with_random_initial_key in the closure (line 800): a
\* fresh random secret, any of the keys; every other step keeps the secret of
\* the state it works on
initial_key_after(step, key) == IF step = "create_with_fqdn" THEN Keys ELSE {key}

\* a closure that forgets .with_fqdn and rebuilds the project under its old name
fqdn_kept(step, t, fqdn) == fqdn

\* .with_fqdn(fqdn) in the closure (line 805): the domain the task was built
\* for; every other step keeps the fqdn of the state it works on
fqdn_after(step, t, fqdn) == IF step = "create_with_fqdn" THEN t.fqdn ELSE fqdn

\* task::delete_project(): the destroy that precedes the removal of the record
delete_project(s) == destroy(s)

\* TaskBuilder::build: every task ends by running the project until it is done;
\* a task without explicit steps is the refresh task of the health scheduler
Build(steps) == steps \o <<"run_until_done">>

\* One poll of a step: the state to commit, the runtime state and the TaskResult.
\* run_until_done loops refresh until a done state; Ready is re-probed once.
StepPoll(step, s, c, probe, idle) ==
    CASE step = "run_until_done" ->
            IF IsDone(s) /\ s.tag # "Ready"
            THEN [state |-> s, container |-> c, result |-> "Done"]
            ELSE LET r == Refresh(s, c, probe, idle)
                 IN [state |-> r.state, container |-> r.container,
                     result |-> IF IsDone(r.state) THEN "Done" ELSE "Pending"]
      [] step = "destroy" ->
            [state |-> destroy(s), container |-> c, result |-> "Done"]
      [] step = "start" ->
            [state |-> start(s),
             container |-> IF s.tag = "Stopped" THEN "Running" ELSE c,
             result |-> "Done"]
      [] step = "restart" ->
            [state |-> restart(s), container |-> c, result |-> "Done"]
      [] step = "create_with_fqdn" ->
            [state |-> create_with_fqdn(s), container |-> c, result |-> "Done"]
      [] step = "delete_project" ->
            [state |-> delete_project(s), container |-> c, result |-> "Done"]
      [] OTHER -> \* start_idle_deploys
            [state |-> s, container |-> c, result |-> "Done"]

----------------------------------------------------------------------------
(* TaskWorker *)

LiveTasks == SeqToSet(queue) \cup executing

FreeTaskIds == TaskIds \ {t.id : t \in LiveTasks}

\* Sender::capacity() of the worker's channel
SenderCapacity == WORKER_QUEUE_SIZE - Len(queue) - backlog

\* TaskBuilder::send: the task goes to the tail of the channel
Send(name, steps, notify) ==
    /\ FreeTaskIds # {}
    /\ queue' = Append(queue, Task(Min(FreeTaskIds), name, steps, notify))

\* a worker that starts every task it receives at once
CanDispatchAlways(t) == TRUE

\* the per-project slot: a task runs only when the slot of its project is
\* free or already its own
CanDispatch(t) == slot[t.project] \in {0, t.id}

Dispatchable == {i \in 1 .. Len(queue) : CanDispatch(queue[i])}

RemoveAt(s, i) == SubSeq(s, 1, i - 1) \o SubSeq(s, i + 1, Len(s))

\* a worker that takes the task that was enqueued last
recv_last(ready) == CHOOSE i \in ready : \A j \in ready : i >= j

\* Receiver::recv: the channel is FIFO, the task enqueued first is taken first
recv(ready) == Min(ready)

WorkerDispatch ==
    /\ Dispatchable # {}
    /\ LET i == recv(Dispatchable)
           t == queue[i]
       IN /\ queue' = RemoveAt(queue, i)
          /\ executing' = executing \cup {t}
          /\ slot' = [slot EXCEPT ![t.project] = t.id]
    /\ UNCHANGED <<projVars, reqs, resp, amb, budget, loadVars, auxVars>>

\* resolves the TaskHandle of a finished task
Notify(t) ==
    /\ reqs' = IF t.notify \in ReqIds
               THEN [reqs EXCEPT ![t.notify].resolved = TRUE]
               ELSE reqs
    /\ amb' = IF t.notify = AmbWaiter
              THEN [amb EXCEPT !.resolved = TRUE]
              ELSE amb

Release(t) == slot' = [slot EXCEPT ![t.project] = IF @ = t.id THEN 0 ELSE @]

WorkerPoll(t, probe) ==
    /\ t \in executing
    /\ executing' = executing \ {t}
    /\ IF projects[t.project] = NoProject
       THEN \* find_project fails: the task ends with Err, nothing is committed
            /\ Release(t)
            /\ Notify(t)
            /\ UNCHANGED <<projVars, queue>>
       ELSE LET p == projects[t.project]
                r == StepPoll(Head(t.steps), p.state, container[t.project], probe, p.idle)
                rest == IF r.result = "Done" THEN Tail(t.steps) ELSE t.steps
            IN /\ projects' \in
                     {[projects EXCEPT ![t.project].state = r.state,
                                       ![t.project].fqdn = fqdn_after(Head(t.steps), t, @),
                                       ![t.project].key = k] :
                         k \in initial_key_after(Head(t.steps), p.key)}
               /\ container' = [container EXCEPT ![t.project] = r.container]
               /\ IF rest = <<>>
                  THEN /\ Release(t)
                       /\ Notify(t)
                       /\ UNCHANGED queue
                  ELSE /\ queue' = Append(queue, [t EXCEPT !.steps = rest])
                       /\ UNCHANGED <<slot, reqs, amb>>
               /\ UNCHANGED <<deployments, resources>>
    /\ UNCHANGED <<resp, budget, loadVars, auxVars>>

\* the runtime is outside the gateway's control: a running container may exit
ContainerExit(n) ==
    /\ container[n] = "Running"
    /\ container' = [container EXCEPT ![n] = "Exited"]
    /\ UNCHANGED <<projects, deployments, resources, workVars, reqs, resp, amb, budget, loadVars, auxVars>>

----------------------------------------------------------------------------
(* Requests of the gateway API *)

Req0 ==
    [kind |-> "none", pc |-> "idle", user |-> "none", name |-> "none", arg |-> 0,
     can |-> FALSE, found |-> "none", seen |-> 0, status |-> 0, body |-> "none",
     eff |-> <<>>, resolved |-> FALSE, deps |-> <<>>, todo |-> {}, fails |-> {},
     fqdn |-> "none"]

NewReq(kind, u, n) == [Req0 EXCEPT !.kind = kind, !.user = u, !.name = n]

\* a request arrives on the first idle connection
Free(r) ==
    /\ budget > 0
    /\ reqs[r].pc = "idle"
    /\ \A k \in 1 .. r - 1 : reqs[k].pc # "idle"

Arrive == budget' = budget - 1

\* the handler returns with a response
Reply(q, status, body) == [q EXCEPT !.pc = "done", !.status = status, !.body = body]

\* the request moves on; when it has returned, its connection is free again and
\* resp holds the response together with what the request did
Set(r, q) ==
    /\ reqs' = [reqs EXCEPT ![r] = IF q.pc = "done" THEN Req0 ELSE q]
    /\ resp' = IF q.pc = "done" THEN q ELSE resp

\* a scope check that looks at the project and not at the caller
ScopedAnyUser(u, n) == projects[n] # NoProject

\* ScopedUser: the project exists and the caller owns it (or is an admin)
Scoped(u, n) ==
    /\ projects[n] # NoProject
    /\ projects[n].owner = u \/ is_admin(u)

\* GatewayService::get_project_count
get_project_count(u) ==
    Cardinality({n \in AllNames : projects[n] # NoProject /\ projects[n].owner = u})

project_limit(u) == IF Tier(u) = "Pro" THEN MAX_PROJECTS_EXTRA ELSE MAX_PROJECTS_DEFAULT

\* ClaimExt::can_create_project
can_create_project(u, count) == is_admin(u) \/ count < project_limit(u)

\* a subtraction that takes nothing off
saturating_sub_nothing(a, b) == a

saturating_sub(a, b) == IF a >= b THEN a - b ELSE 0

\* GatewayService::count_ready_projects: the running projects of the store
count_ready_projects ==
    Cardinality({n \in AllNames : projects[n] # NoProject /\ projects[n].state.tag = "Ready"})

\* GatewayService::has_capacity
has_capacity(is_cch, tier, count) ==
    IF count < CchLimit THEN TRUE
    ELSE IF count < SoftLimit THEN ~is_cch
    ELSE IF count < HardLimit THEN tier = "Pro"
    ELSE FALSE

NoDeployments == [d \in DeploymentIds |-> "None"]

----------------------------------------------------------------------------
(* POST /projects/{name}: create_project *)

\* lines 353-361: the project count is read and compared with the limit
CreateProjectStart(r, u, n, idle) ==
    /\ Free(r)
    /\ Arrive
    /\ Set(r,
          [NewReq("create", u, n) EXCEPT
              !.pc = "has_capacity",
              !.arg = idle,
              !.can = can_create_project(u,
                         saturating_sub(get_project_count(u),
                                        IF is_cch_project(n) THEN 1 ELSE 0))])
    /\ UNCHANGED <<projVars, workVars, amb, loadVars, auxVars>>

\* an admission check that lets every caller pass below the hard limit
AdmittedBelowHardLimit(q) ==
    is_admin(q.user) \/ count_ready_projects < HardLimit

\* the admission check a create or a wake has to pass
Admitted(q) ==
    is_admin(q.user) \/ has_capacity(is_cch_project(q.name), Tier(q.user), count_ready_projects)

\* lines 363-365
CreateProjectCapacity(r) ==
    /\ reqs[r].kind = "create" /\ reqs[r].pc = "has_capacity"
    /\ LET q == [reqs[r] EXCEPT !.seen = count_ready_projects]
       IN Set(r,
             IF Admitted(q)
             THEN [q EXCEPT !.pc = "create"]
             ELSE Reply(q, 503, "CapacityExhausted"))
    /\ UNCHANGED <<projVars, workVars, amb, budget, loadVars, auxVars>>

\* an idle time that follows the request for every name
idle_as_requested(n, requested) == requested

\* lines 373-377: the idle_minutes handed to GatewayService::create_project
idle_minutes_for(n, requested) ==
    IF is_cch_project(n) THEN CCH_IDLE_MINUTES ELSE requested

\* lines 367-379: GatewayService::create_project
CreateProjectCreate(r) ==
    /\ reqs[r].kind = "create" /\ reqs[r].pc = "create"
    /\ LET q == reqs[r]
           n == q.name
           idle == idle_minutes_for(n, q.arg)
       IN IF projects[n] # NoProject
          THEN /\ Set(r, Reply(q, 400, "ProjectAlreadyExists"))
               /\ UNCHANGED projVars
          ELSE IF q.can
          THEN /\ projects' = [projects EXCEPT ![n] =
                      ProjectRecord(q.user, Simple("Creating"), idle)]
               /\ deployments' = [deployments EXCEPT ![n] = NoDeployments]
               /\ resources' = [resources EXCEPT ![n] = {}]
               /\ Set(r,
                      [q EXCEPT !.pc = "send", !.arg = idle, !.eff = Append(@, "created")])
               /\ UNCHANGED container
          ELSE /\ Set(r, Reply(q, 403, "ProjectLimitExceeded"))
               /\ UNCHANGED projVars
    /\ UNCHANGED <<workVars, amb, budget, loadVars, auxVars>>

\* lines 382-397
CreateProjectSend(r) ==
    /\ reqs[r].kind = "create" /\ reqs[r].pc = "send"
    /\ Send(reqs[r].name, Build(<<"run_until_done", "start_idle_deploys">>), NoWaiter)
    /\ Set(r,
          Reply([reqs[r] EXCEPT !.eff = Append(@, "enqueued")], 200, "Creating"))
    /\ UNCHANGED <<projVars, executing, slot, amb, budget, loadVars, auxVars>>

----------------------------------------------------------------------------
(* GET /projects/{name}: get_project *)

GetProject(r, u, n) ==
    /\ Free(r)
    /\ Arrive
    /\ Set(r,
          IF Scoped(u, n)
          THEN Reply(NewReq("get", u, n), 200, projects[n].state.tag)
          ELSE Reply(NewReq("get", u, n), 404, "ProjectNotFound"))
    /\ UNCHANGED <<projVars, workVars, amb, loadVars, auxVars>>

----------------------------------------------------------------------------
(* DELETE /projects/{name}: destroy_project *)

\* a handler that sends the destroy task whatever the state
DestroyNeverNoop(tag) == FALSE

\* a handler that treats a stopped project like a destroyed one
DestroyNoopWhenStopped(tag) == tag \in {"Destroyed", "Stopped"}

\* line 420: only a Destroyed project is answered without a task
DestroyIsNoop(tag) == tag = "Destroyed"

\* lines 410-422
DestroyProjectStart(r, u, n) ==
    /\ Free(r)
    /\ Arrive
    /\ LET q == NewReq("destroy", u, n)
       IN Set(r,
             IF ~Scoped(u, n)
             THEN Reply(q, 404, "ProjectNotFound")
             ELSE LET f == [q EXCEPT !.found = projects[n].state.tag]
                  IN IF DestroyIsNoop(f.found)
                     THEN Reply(f, 200, f.found)
                     ELSE [f EXCEPT !.pc = "send"])
    /\ UNCHANGED <<projVars, workVars, amb, loadVars, auxVars>>

\* lines 424-434
DestroyProjectSend(r) ==
    /\ reqs[r].kind = "destroy" /\ reqs[r].pc = "send"
    /\ Send(reqs[r].name, Build(<<"destroy">>), NoWaiter)
    /\ Set(r,
          Reply([reqs[r] EXCEPT !.eff = Append(@, "enqueued")], 200, "Destroying"))
    /\ UNCHANGED <<projVars, executing, slot, amb, budget, loadVars, auxVars>>

----------------------------------------------------------------------------
(* GatewayService::find_or_start_project: a stopped project is woken by a    *)
(* start task whose handle the caller awaits                                 *)

HasTargetIp(s) == s.tag \in {"Started", "Ready"}

WakeSteps == Build(<<"start">>)

\* a gateway that sends a start task for every project that is not up
is_stopped_or_down(st) == ~HasTargetIp(st)

\* find_or_start_project wakes a project it finds stopped (spec 4.10)
is_stopped(st) == st.tag = "Stopped"

FindOrStart(r, q, nextpc) ==
    IF projects[q.name] = NoProject
    THEN /\ Set(r, Reply(q, 404, "ProjectNotFound"))
         /\ UNCHANGED queue
    ELSE IF is_stopped(projects[q.name].state)
    THEN /\ Send(q.name, WakeSteps, r)
         /\ Set(r,
               [q EXCEPT !.pc = "wake_wait", !.eff = Append(@, "wake")])
    ELSE /\ Set(r, [q EXCEPT !.pc = nextpc])
         /\ UNCHANGED queue

AfterWake(kind) ==
    CASE kind = "route" -> "route"
      [] kind = "proxy" -> "proxy"
      [] OTHER -> "list"

Woken(r) ==
    /\ reqs[r].pc = "wake_wait" /\ reqs[r].resolved
    /\ Set(r,
          IF projects[reqs[r].name] = NoProject
          THEN Reply(reqs[r], 404, "ProjectNotFound")
          ELSE [reqs[r] EXCEPT !.pc = AfterWake(reqs[r].kind), !.resolved = FALSE,
                               !.found = IF reqs[r].kind = "proxy"
                                         THEN projects[reqs[r].name].state.tag
                                         ELSE @])
    /\ UNCHANGED <<projVars, workVars, amb, budget, loadVars, auxVars>>

----------------------------------------------------------------------------
(* ANY /projects/{name}/*: route_project; arg 1 is the deploy POST *)

\* lines 584-591
RouteProjectStart(r, u, n, arg) ==
    /\ Free(r)
    /\ Arrive
    /\ LET q == [NewReq("route", u, n) EXCEPT !.arg = arg, !.seen = count_ready_projects]
       IN Set(r,
             IF ~Scoped(u, n)
             THEN Reply(q, 404, "ProjectNotFound")
             ELSE IF ~Admitted(q)
             THEN Reply(q, 503, "CapacityExhausted")
             ELSE [q EXCEPT !.pc = "find", !.found = projects[n].state.tag])
    /\ UNCHANGED <<projVars, workVars, amb, loadVars, auxVars>>

\* line 593
RouteProjectFind(r) ==
    /\ reqs[r].kind = "route" /\ reqs[r].pc = "find"
    /\ FindOrStart(r, reqs[r], "route")
    /\ UNCHANGED <<projVars, executing, slot, amb, budget, loadVars, auxVars>>

FreeDeploymentIds(n) == {d \in DeploymentIds : deployments[n][d] = "None"}

\* lines 594-596: GatewayService::route forwards to the project's deployer;
\* the deploy POST ends in the deployer's create_service
RouteProjectForward(r) ==
    /\ reqs[r].kind = "route" /\ reqs[r].pc = "route"
    /\ LET q == reqs[r]
           n == q.name
       IN IF projects[n] = NoProject \/ ~HasTargetIp(projects[n].state)
          THEN /\ Set(r, Reply(q, 503, "ProjectNotReady"))
               /\ UNCHANGED deployments
          ELSE IF container[n] # "Running"
          THEN /\ Set(r, Reply(q, 502, "ProjectUnavailable"))
               /\ UNCHANGED deployments
          ELSE /\ Set(r, Reply(q, 200, "forwarded"))
               /\ deployments' =
                     IF q.arg = 1 /\ FreeDeploymentIds(n) # {}
                     THEN [deployments EXCEPT ![n][Min(FreeDeploymentIds(n))] = "Queued"]
                     ELSE deployments
    /\ UNCHANGED <<projects, container, resources, workVars, amb, budget, loadVars, auxVars>>

----------------------------------------------------------------------------
(* Certificates: the CustomDomainStore, the gateway's own certificate and    *)
(* the resolver that serves them                                             *)

Fqdns == {"example.com", "shuttle.dev"}

NoCert == [tag |-> "NoCert"]

Cert(not_after) == [tag |-> "Cert", not_after |-> not_after]

Days(d) == d * TicksPerDay

None == -1

\* ASN1Time - ASN1Time: a duration only when the left side is the later one
Sub(a, b) == IF a > b THEN a - b ELSE None

unwrap_or_default(d) == IF d = None THEN 0 ELSE d

\* Duration::whole_days: the full days of a duration
whole_days(d) == d \div TicksPerDay

\* a renewal window that is one day longer
within_threshold_of_31(d) == whole_days(d) <= RENEWAL_VALIDITY_THRESHOLD_IN_DAYS + 1

\* lines 872 and 933-936
within_threshold(d) == whole_days(d) <= RENEWAL_VALIDITY_THRESHOLD_IN_DAYS

\* AcmeClient::create_certificate: the certificate the ACME server issues now
create_certificate == Cert(now + Days(CertDays))

\* GatewayCertResolver::serve_pem and serve_default_der replace the binding
serve(key, cert) == cert_resolver' = [cert_resolver EXCEPT ![key] = cert]

----------------------------------------------------------------------------
(* The user proxy: proxy.rs, UserProxy::proxy *)

\* the public FQDN of the gateway, as its labels
public == <<"shuttleapp", "rs">>

\* FQDN::is_subdomain_of: the labels of the parent end the labels of the host
is_subdomain_of(host, parent) ==
    /\ Len(host) >= Len(parent)
    /\ SubSeq(host, Len(host) - Len(parent) + 1, Len(host)) = parent

\* FQDN::depth
depth(host) == Len(host)

\* FQDN::to_string for the hosts of the model
to_string(host) ==
    CASE host = <<"example", "com">> -> "example.com"
      [] host = <<"shuttle", "dev">> -> "shuttle.dev"
      [] OTHER -> "none"

\* GatewayService::project_details_for_custom_domain: the stored custom
\* domains are those of the project matrix
project_details_for_custom_domain(host) ==
    IF to_string(host) \in Fqdns /\ custom_domains[to_string(host)] # NoCert
    THEN "matrix"
    ELSE "none"

\* ProjectName::from_str of a label
parse_project_name(label) == IF label \in AllNames THEN label ELSE "none"

NoHost == <<>>

\* lines 110-131: the project the Host header names
ProxyStart(r, host) ==
    /\ Free(r)
    /\ Arrive
    /\ LET q == [NewReq("proxy", "none", "none") EXCEPT !.deps = host]
       IN Set(r,
             IF host = NoHost
             THEN Reply(q, 400, "BadHost")
             ELSE IF is_subdomain_of(host, public) /\ depth(host) - depth(public) = 1
             THEN IF parse_project_name(host[1]) = "none"
                  THEN Reply(q, 400, "InvalidProjectName")
                  ELSE [q EXCEPT !.pc = "find", !.name = parse_project_name(host[1])]
             ELSE IF project_details_for_custom_domain(host) # "none"
             THEN [q EXCEPT !.pc = "find",
                            !.name = project_details_for_custom_domain(host)]
             ELSE Reply(q, 404, "CustomDomainNotFound"))
    /\ UNCHANGED <<projVars, workVars, amb, loadVars, auxVars>>

\* lines 136-139: find_or_start_project
ProxyFind(r) ==
    /\ reqs[r].kind = "proxy" /\ reqs[r].pc = "find"
    /\ LET q == [reqs[r] EXCEPT !.eff = Append(@, "find")]
       IN FindOrStart(r,
                      IF projects[q.name] = NoProject THEN q
                      ELSE [q EXCEPT !.found = projects[q.name].state.tag],
                      "proxy")
    /\ UNCHANGED <<projVars, executing, slot, amb, budget, loadVars, auxVars>>

\* a proxy that calls upstream whatever the state it found
AnyTag(tag) == TRUE

\* lines 144-147: project.state.target_ip() of the project that was found
TargetIpOf(tag) == HasTargetIp([tag |-> tag])

\* lines 144-167: ProjectNotReady without a target_ip, else the upstream call
ProxyForward(r) ==
    /\ reqs[r].kind = "proxy" /\ reqs[r].pc = "proxy"
    /\ LET q == reqs[r]
           called == [q EXCEPT !.eff = Append(@, "upstream")]
       IN Set(r,
             IF ~TargetIpOf(q.found)
             THEN Reply(q, 503, "ProjectNotReady")
             ELSE IF container[q.name] # "Running"
             THEN Reply(called, 502, "ProjectUnavailable")
             ELSE Reply(called, 200, "forwarded"))
    /\ UNCHANGED <<projVars, workVars, amb, budget, loadVars, auxVars>>

----------------------------------------------------------------------------
(* The bouncer: proxy.rs, Bouncer::bounce, for requests that are no ACME     *)
(* challenge                                                                 *)

NoBounce == [host |-> <<"-">>, path |-> "none", status |-> 0, location |-> "none",
             panicked |-> FALSE]

\* format!("https://{hostname}{path}")
Location(host, path) == <<"https://", host, path>>

\* lines 205-232: Option::unwrap of the Host header panics when there is none
bounce(host, path) ==
    /\ bounced' =
          IF host = NoHost
          THEN [host |-> host, path |-> path, status |-> 0, location |-> "none",
                panicked |-> TRUE]
          ELSE IF is_subdomain_of(host, public)
                  \/ project_details_for_custom_domain(host) # "none"
          THEN [host |-> host, path |-> path, status |-> 301,
                location |-> Location(host, path), panicked |-> FALSE]
          ELSE [host |-> host, path |-> path, status |-> 404, location |-> "none",
                panicked |-> FALSE]
    /\ UNCHANGED <<projVars, workVars, reqs, resp, amb, budget, loadVars, tlsVars,
                   depVars, chanVars, paging>>

----------------------------------------------------------------------------
(* DELETE /projects/{name}/delete: delete_project *)

\* a handler that takes only a stopped project as it is
project_deletable_only_stopped(tag) == tag = "Stopped"

\* line 463
project_deletable(tag) == tag \in {"Ready", "Stopped"}

\* a check that looks for queued deployments only
has_bad_state_only_queued(deps) == \E d \in DeploymentIds : deps[d] = "Queued"

\* lines 494-502
has_bad_state(deps) ==
    \E d \in DeploymentIds :
        /\ deps[d] # "None"
        /\ deps[d] \notin {"Running", "Completed", "Crashed", "Stopped"}

\* lines 508-510
running_deployments(deps) == {d \in DeploymentIds : deps[d] = "Running"}

\* lines 452-463
DeleteProjectStart(r, u, n, dry_run) ==
    /\ Free(r)
    /\ Arrive
    /\ LET q == NewReq("delete", u, n)
       IN Set(r,
             IF ~Scoped(u, n)
             THEN Reply(q, 404, "ProjectNotFound")
             ELSE IF dry_run
             THEN Reply(q, 200, "dry run is no longer supported")
             ELSE LET f == [q EXCEPT !.found = projects[n].state.tag]
                  IN IF project_deletable(f.found)
                     THEN [f EXCEPT !.pc = "caller"]
                     ELSE [f EXCEPT !.pc = "restart"])
    /\ UNCHANGED <<projVars, workVars, amb, loadVars, auxVars>>

\* lines 464-471: try to start up destroyed or errored projects
DeleteProjectRestart(r) ==
    /\ reqs[r].kind = "delete" /\ reqs[r].pc = "restart"
    /\ Send(reqs[r].name, Build(<<"restart">>), r)
    /\ Set(r,
          [reqs[r] EXCEPT !.pc = "restart_wait", !.eff = Append(@, "restart")])
    /\ UNCHANGED <<projVars, executing, slot, amb, budget, loadVars, auxVars>>

\* lines 473-481
DeleteProjectRestarted(r) ==
    /\ reqs[r].kind = "delete" /\ reqs[r].pc = "restart_wait" /\ reqs[r].resolved
    /\ LET q == [reqs[r] EXCEPT !.resolved = FALSE]
           n == q.name
       IN Set(r,
             IF projects[n] = NoProject
             THEN Reply(q, 404, "ProjectNotFound")
             ELSE IF projects[n].state.tag # "Ready"
             THEN Reply(q, 500, "ProjectCorrupted")
             ELSE [q EXCEPT !.pc = "caller"])
    /\ UNCHANGED <<projVars, workVars, amb, budget, loadVars, auxVars>>

\* lines 486-487: ProjectCaller::new resolves the project's deployer
DeleteProjectCaller(r) ==
    /\ reqs[r].kind = "delete" /\ reqs[r].pc = "caller"
    /\ FindOrStart(r, reqs[r], "list")
    /\ UNCHANGED <<projVars, executing, slot, amb, budget, loadVars, auxVars>>

\* lines 489-506
DeleteProjectList(r) ==
    /\ reqs[r].kind = "delete" /\ reqs[r].pc = "list"
    /\ LET q == reqs[r]
           n == q.name
       IN Set(r,
             IF projects[n] = NoProject \/ container[n] # "Running"
             THEN Reply(q, 503, "ProjectUnavailable")
             ELSE LET l == [q EXCEPT !.deps = deployments[n]]
                  IN IF has_bad_state(l.deps)
                     THEN Reply(l, 400, "ProjectHasBuildingDeployment")
                     ELSE [l EXCEPT !.pc = "stop", !.todo = running_deployments(l.deps)])
    /\ UNCHANGED <<projVars, workVars, amb, budget, loadVars, auxVars>>

\* lines 512-523: one stop_deployment call, or get_resources when none is left
DeleteProjectStop(r, ok) ==
    /\ reqs[r].kind = "delete" /\ reqs[r].pc = "stop"
    /\ LET q == reqs[r]
           n == q.name
       IN IF q.todo = {}
          THEN /\ ok
               /\ Set(r,
                     [q EXCEPT !.pc = "resources", !.todo = resources[n],
                               !.arg = Cardinality(resources[n])])
               /\ UNCHANGED deployments
          ELSE LET d == Min(q.todo)
               IN IF ok
                  THEN /\ deployments' = [deployments EXCEPT ![n][d] =
                              IF @ = "Running" THEN "Stopped" ELSE @]
                       /\ Set(r,
                              [q EXCEPT !.todo = @ \ {d}, !.eff = Append(@, "stopped")])
                  ELSE /\ Set(r,
                              Reply([q EXCEPT !.fails = {"deployment"}],
                                    500, "ProjectHasRunningDeployment"))
                       /\ UNCHANGED deployments
    /\ UNCHANGED <<projects, container, resources, workVars, amb, budget, loadVars, auxVars>>

\* a list of failures that no failure is ever pushed to
delete_fails_never(fails, t, ok) == fails

\* lines 530-532: delete_fails after the call for resource type t returned
delete_fails_push(fails, t, ok) == IF ok THEN fails ELSE fails \cup {t}

\* lines 526-539: one delete_resource call, or the verdict when none is left
DeleteProjectResource(r, ok) ==
    /\ reqs[r].kind = "delete" /\ reqs[r].pc = "resources"
    /\ LET q == reqs[r]
           n == q.name
       IN IF q.todo = {}
          THEN /\ ok
               /\ Set(r,
                     IF q.fails # {}
                     THEN Reply(q, 500, "ProjectHasResources")
                     ELSE [q EXCEPT !.pc = "destroy"])
               /\ UNCHANGED resources
          ELSE \E t \in q.todo :
                  IF ok
                  THEN /\ resources' = [resources EXCEPT ![n] = @ \ {t}]
                       /\ Set(r,
                              [q EXCEPT !.todo = @ \ {t}, !.eff = Append(@, "deleted")])
                  ELSE /\ Set(r,
                              [q EXCEPT !.todo = @ \ {t},
                                        !.fails = delete_fails_push(@, t, ok)])
                       /\ UNCHANGED resources
    /\ UNCHANGED <<projects, container, deployments, workVars, amb, budget, loadVars, auxVars>>

\* lines 541-546
DeleteProjectDestroy(r) ==
    /\ reqs[r].kind = "delete" /\ reqs[r].pc = "destroy"
    /\ Send(reqs[r].name, Build(<<"delete_project">>), r)
    /\ Set(r,
          [reqs[r] EXCEPT !.pc = "destroy_wait", !.eff = Append(@, "enqueued")])
    /\ UNCHANGED <<projVars, executing, slot, amb, budget, loadVars, auxVars>>

\* a handler that does not wait for the handle of its task
NotAwaited(q) == TRUE

\* lines 546-547: .await on the TaskHandle
Awaited(q) == q.resolved

\* lines 547-551: task.await, then GatewayService::delete_project
DeleteProjectRemove(r) ==
    /\ reqs[r].kind = "delete" /\ reqs[r].pc = "destroy_wait" /\ Awaited(reqs[r])
    /\ LET q == [reqs[r] EXCEPT !.eff = IF reqs[r].resolved THEN Append(@, "resolved") ELSE @]
           n == q.name
       IN IF projects[n] = NoProject
          THEN /\ Set(r, Reply(q, 404, "ProjectNotFound"))
               /\ UNCHANGED projects
          ELSE /\ projects' = [projects EXCEPT ![n] = NoProject]
               /\ Set(r,
                     Reply([q EXCEPT !.eff = Append(@, "removed")],
                           200, "project successfully deleted"))
    /\ UNCHANGED <<container, deployments, resources, workVars, amb, budget, loadVars, auxVars>>

----------------------------------------------------------------------------
(* POST /admin/acme/request/{project}/{fqdn} *)

\* a chain that does not wait for the destroy before it recreates
CustomDomainStepsNoWait ==
    <<"destroy", "create_with_fqdn", "run_until_done", "start_idle_deploys">>

\* lines 790-812: destroy and recreate the project with the new domain
CustomDomainSteps ==
    <<"destroy", "run_until_done", "create_with_fqdn", "run_until_done",
      "start_idle_deploys">>

\* lines 770-787: create_custom_domain_certificate issues the certificate
\* and stores it; the order may fail, the project may be missing, and a state
\* without a container makes container().unwrap() panic
RequestCustomDomainStart(r, n, fqdn, issued) ==
    /\ Free(r)
    /\ Arrive
    /\ LET q == [NewReq("custom_domain", "root", n) EXCEPT !.fqdn = fqdn]
       IN Set(r,
             IF ~issued
             THEN Reply(q, 500, "Internal")
             ELSE IF projects[n] = NoProject
             THEN Reply(q, 404, "ProjectNotFound")
             ELSE IF ~HasContainer(projects[n].state)
             THEN Reply(q, 500, "panic")
             ELSE [q EXCEPT !.pc = "send", !.found = projects[n].state.tag])
    /\ custom_domains' = IF issued
                         THEN [custom_domains EXCEPT ![fqdn] = create_certificate]
                         ELSE custom_domains
    /\ UNCHANGED <<projVars, workVars, amb, loadVars, now, cert_resolver, ssl_pem, tls,
                   depVars, restVars>>

\* lines 789-824: the task chain, then the resolver serves the stored
\* certificate
RequestCustomDomainSend(r) ==
    /\ reqs[r].kind = "custom_domain" /\ reqs[r].pc = "send"
    /\ FreeTaskIds # {}
    /\ queue' = Append(queue,
                       [Task(Min(FreeTaskIds), reqs[r].name, Build(CustomDomainSteps),
                             NoWaiter) EXCEPT !.fqdn = reqs[r].fqdn])
    /\ serve(reqs[r].fqdn, custom_domains[reqs[r].fqdn])
    /\ Set(r,
          Reply([reqs[r] EXCEPT !.eff = Append(@, "enqueued")],
                200, "New certificate created"))
    /\ UNCHANGED <<projVars, executing, slot, amb, budget, loadVars, now,
                   custom_domains, ssl_pem, tls, depVars, restVars>>

----------------------------------------------------------------------------
(* The health scheduler of main.rs, lines 94-139 *)

iter_projects_ready ==
    {n \in AllNames : projects[n] # NoProject /\ projects[n].state.tag = "Ready"}

\* skipped: the last tick found the channel degraded and started no round
AmbIdle == [pc |-> "idle", todo |-> {}, resolved |-> FALSE, skipped |-> FALSE]

\* a scheduler that skips the tick when no more than the threshold is left
degraded_at_threshold(cap) == cap <= SVC_DEGRADED_THRESHOLD

\* line 106: if degraded, don't stack more health checks
degraded(cap) == cap < WORKER_QUEUE_SIZE - SVC_DEGRADED_THRESHOLD

\* lines 104-115: a tick; skipped when the channel is degraded
AmbulanceTick ==
    /\ amb.pc = "idle"
    /\ amb' = IF degraded(SenderCapacity)
              THEN [amb EXCEPT !.skipped = TRUE]
              ELSE IF iter_projects_ready = {}
              THEN AmbIdle
              ELSE [AmbIdle EXCEPT !.pc = "round", !.todo = iter_projects_ready]
    /\ UNCHANGED <<projVars, workVars, reqs, resp, budget, loadVars, auxVars>>

\* lines 124-127: the refresh task of the next project
AmbulanceSend(n) ==
    /\ amb.pc = "round"
    /\ n \in amb.todo
    /\ Send(n, Build(<<>>), AmbWaiter)
    /\ amb' = [amb EXCEPT !.pc = "wait", !.todo = @ \ {n}, !.resolved = FALSE]
    /\ UNCHANGED <<projVars, executing, slot, reqs, resp, budget, loadVars, auxVars>>

\* a scheduler that does not wait for the handle
AmbulanceDoneUnawaited ==
    /\ amb.pc = "wait"
    /\ amb' = IF amb.todo = {} THEN AmbIdle ELSE [amb EXCEPT !.pc = "round", !.resolved = FALSE]
    /\ UNCHANGED <<projVars, workVars, reqs, resp, budget, loadVars, auxVars>>

\* lines 128-131: handle.await, then the next project or the next tick
AmbulanceDone ==
    /\ amb.pc = "wait" /\ amb.resolved
    /\ amb' = IF amb.todo = {} THEN AmbIdle ELSE [amb EXCEPT !.pc = "round", !.resolved = FALSE]
    /\ UNCHANGED <<projVars, workVars, reqs, resp, budget, loadVars, auxVars>>

----------------------------------------------------------------------------
(* The paginated lists: gateway GET /projects, deployer GET                  *)
(* /projects/{p}/deployments. page and limit are u32; the model keeps the    *)
(* arithmetic of the type at a width of UBits bits.                          *)

RECURSIVE Pow2(_)
Pow2(k) == IF k = 0 THEN 1 ELSE 2 * Pow2(k - 1)

\* u32::MAX
U32_MAX == Pow2(UBits) - 1

\* a query parameter that was left out
Omitted == -1

unwrap_or(v, default) == IF v = Omitted THEN default ELSE v

\* `limit * page` on u32: the product cut to the width of the type, and
\* whether it did not fit
mul(a, b) == [value |-> (a * b) % Pow2(UBits), overflow |-> a * b > U32_MAX]

NoPaging == [route |-> "none"]

MinOf(a, b) == IF a <= b THEN a ELSE b

\* what a store holding total items returns for OFFSET offset LIMIT limit
page_of(total, offset, limit) ==
    IF offset >= total THEN 0 ELSE MinOf(limit, total - offset)

\* the list request as it reaches the store. A product that does not fit
\* panics in a build with overflow checks and wraps in one without: checked
\* says which build this is.
Paginated(route, total, page_arg, limit_arg, checked) ==
    LET limit == unwrap_or(limit_arg, U32_MAX)
        page == unwrap_or(page_arg, 0)
        offset == mul(limit, page)
    IN IF offset.overflow /\ checked
       THEN [route |-> route, page |-> page, limit |-> limit, panicked |-> TRUE,
             offset |-> 0, got |-> 0]
       ELSE [route |-> route, page |-> page, limit |-> limit, panicked |-> FALSE,
             offset |-> offset.value, got |-> page_of(total, offset.value, limit)]

PageFrame ==
    UNCHANGED <<projVars, workVars, reqs, resp, amb, budget, loadVars, tlsVars, depVars,
                chanVars, bounced>>

\* latest.rs, lines 322-342
get_projects_list(u, page_arg, limit_arg, checked) ==
    /\ paging' = Paginated("projects", get_project_count(u), page_arg, limit_arg, checked)
    /\ PageFrame

\* Persistence::get_deployments: the deployments the service has
deployments_of(n) == Cardinality({d \in DeploymentIds : deployments[n][d] # "None"})

\* handlers/mod.rs, lines 388-408: the answer of the handler
deployments_page(n, page_arg, limit_arg, checked) ==
    IF projects[n] = NoProject
    THEN [Paginated("deployments", 0, 0, 0, FALSE) EXCEPT
             !.page = unwrap_or(page_arg, 0), !.limit = unwrap_or(limit_arg, U32_MAX)]
    ELSE Paginated("deployments", deployments_of(n), page_arg, limit_arg, checked)

get_deployments(n, page_arg, limit_arg, checked) ==
    /\ paging' = deployments_page(n, page_arg, limit_arg, checked)
    /\ PageFrame

----------------------------------------------------------------------------
(* cargo shuttle deployment list --page P --limit L                          *)

\* `limit + 1` on u32: the sum cut to the width of the type, and whether it
\* did not fit
add(a, b) == [value |-> (a + b) % Pow2(UBits), overflow |-> a + b > U32_MAX]

\* what the command printed: the zero-based position of the first row, the
\* number of rows, and whether a next page was announced
Listing(page, limit, panicked, first, rows, hint, total) ==
    [route |-> "deployments_list", page |-> page, limit |-> limit,
     panicked |-> panicked, offset |-> first, got |-> rows, hint |-> hint,
     total |-> total]

\* Client::get_deployments, client.rs 357-360: the page of the query string
page_sent(page) == saturating_sub(page, 1)

\* Shuttle::deployments_list, lib.rs 825-855, with Client::get_deployments
deployments_list(n, page, limit, checked) ==
    /\ paging' =
          IF limit = 0
          THEN Listing(page, limit, FALSE, 0, 0, FALSE, deployments_of(n))
          ELSE LET more == add(limit, 1)
                   r == deployments_page(n, page_sent(page), more.value, checked)
                   hint == r.got = more.value
               IN IF (more.overflow /\ checked) \/ r.panicked
                  THEN Listing(page, limit, TRUE, 0, 0, FALSE, deployments_of(n))
                  ELSE Listing(page, limit, FALSE, r.offset,
                               IF hint /\ r.got > 0 THEN r.got - 1 ELSE r.got,
                               hint, deployments_of(n))
    /\ PageFrame

----------------------------------------------------------------------------
(* GET /: the gateway's health, read off the worker's channel                *)

\* a status that does not look at whether the channel is closed
gateway_status_of_open(is_closed, cap) ==
    IF cap = 0 THEN "unhealthy"
    ELSE IF cap < WORKER_QUEUE_SIZE - SVC_DEGRADED_THRESHOLD THEN "degraded"
    ELSE "healthy"

\* lines 606-612
gateway_status(is_closed, cap) ==
    IF is_closed \/ cap = 0 THEN "unhealthy"
    ELSE IF cap < WORKER_QUEUE_SIZE - SVC_DEGRADED_THRESHOLD THEN "degraded"
    ELSE "healthy"

\* what the actions on the channel alone leave as it is
ChanFrame ==
    UNCHANGED <<projVars, workVars, reqs, resp, amb, loadVars, tlsVars, depVars, paging,
                bounced>>

\* lines 599-612: get_status
get_status ==
    /\ budget > 0
    /\ Arrive
    /\ health' = gateway_status(closed, SenderCapacity)
    /\ UNCHANGED <<backlog, closed>>
    /\ ChanFrame

\* a handler sends a task of a project that is not followed here
BacklogSend ==
    /\ budget > 0
    /\ Arrive
    /\ ~closed /\ SenderCapacity > 0
    /\ backlog' = backlog + 1
    /\ UNCHANGED <<closed, health>>
    /\ ChanFrame

\* the worker receives such a task
BacklogRecv ==
    /\ ~closed /\ backlog > 0
    /\ backlog' = backlog - 1
    /\ UNCHANGED <<closed, health, budget>>
    /\ ChanFrame

\* the worker stops (tests::status aborts it): the receiver is dropped
WorkerStops ==
    /\ ~closed
    /\ closed' = TRUE
    /\ UNCHANGED <<backlog, health, budget>>
    /\ ChanFrame

----------------------------------------------------------------------------
(* The build queue: POST/DELETE /stats/load, GET/DELETE /admin/stats/load *)

CpuChoices == {1, 8, 11}

\* into_router, line 233
concurrent_builds(n) ==
    LET quarter == (((n * 3) \div 4) \div 4)
    IN IF quarter > 1 THEN quarter ELSE 1

capacity == concurrent_builds(cpus)

Live(rb) == {b \in BuildIds : rb[b] = "live"}

\* a queue whose expired entries keep their place
PrunedNever(rb) == [b \in BuildIds |-> IF rb[b] = "expired" THEN "live" ELSE rb[b]]

\* TtlCache::iter drops the expired entries before it counts
Pruned(rb) == [b \in BuildIds |-> IF rb[b] = "expired" THEN "none" ELSE rb[b]]

\* a build queue that still grants when it is exactly full
HasCapacityWhenFull(active, cap) == active <= cap

\* line 708
HasCapacity(active, cap) == active < cap

\* lines 705-714
calculate_capacity(rb) ==
    LET active == Cardinality(Live(Pruned(rb)))
    IN [builds_count |-> active, has_capacity |-> HasCapacity(active, capacity)]

NoLoad == [op |-> "none"]

LoadResponse(op, l, before, rb) ==
    [op |-> op, builds_count |-> l.builds_count, has_capacity |-> l.has_capacity,
     before |-> before, live |-> Cardinality(Live(rb))]

\* lines 647-666
post_load(id) ==
    LET before == Pruned(running_builds)
        l == calculate_capacity(running_builds)
        fresh == before[id] = "none"
        after == IF l.has_capacity THEN [before EXCEPT ![id] = "live"] ELSE before
        out == IF l.has_capacity /\ fresh
               THEN [l EXCEPT !.builds_count = @ + 1]
               ELSE l
    IN /\ running_builds' = after
       /\ load' = LoadResponse("post_load", out, Cardinality(Live(before)), after)
       /\ UNCHANGED <<projVars, workVars, reqs, resp, amb, budget, cpus, auxVars>>

\* lines 669-680
delete_load(id) ==
    LET removed == [running_builds EXCEPT ![id] = "none"]
        l == calculate_capacity(removed)
    IN /\ running_builds' = Pruned(removed)
       /\ load' = LoadResponse("delete_load", l, Cardinality(Live(running_builds)),
                               Pruned(removed))
       /\ UNCHANGED <<projVars, workVars, reqs, resp, amb, budget, cpus, auxVars>>

\* lines 683-691
get_load_admin ==
    LET l == calculate_capacity(running_builds)
    IN /\ running_builds' = Pruned(running_builds)
       /\ load' = LoadResponse("get_load_admin", l, Cardinality(Live(running_builds)),
                               Pruned(running_builds))
       /\ UNCHANGED <<projVars, workVars, reqs, resp, amb, budget, cpus, auxVars>>

\* lines 694-703
delete_load_admin ==
    LET cleared == [b \in BuildIds |-> "none"]
        l == calculate_capacity(cleared)
    IN /\ running_builds' = cleared
       /\ load' = LoadResponse("delete_load_admin", l, Cardinality(Live(running_builds)),
                               cleared)
       /\ UNCHANGED <<projVars, workVars, reqs, resp, amb, budget, cpus, auxVars>>

\* the TTL of a grant (60 * EXP_MINUTES seconds) runs out
ExpireBuild(id) ==
    /\ running_builds[id] = "live"
    /\ running_builds' = [running_builds EXCEPT ![id] = "expired"]
    /\ UNCHANGED <<projVars, workVars, reqs, resp, amb, budget, cpus, load, auxVars>>

----------------------------------------------------------------------------
(* The renewal handlers *)

NoTls == [op |-> "none"]

\* what a renewal handler answered, together with what it found and did
TlsResponse(op, fqdn, found, asked, status, body, report) ==
    [op |-> op, fqdn |-> fqdn, found |-> found, at |-> now, asked |-> asked,
     status |-> status, body |-> body, report |-> report,
     changed |-> <<custom_domains', cert_resolver', ssl_pem'>>
                    # <<custom_domains, cert_resolver, ssl_pem>>]

NoReport == [unit |-> "none", n |-> 0]

\* lines 898-901 format the Duration itself, lines 952-956 its whole days
Report(unit, n) == [unit |-> unit, n |-> n]

ReportedDays(report) ==
    IF report.unit = "duration" THEN whole_days(report.n) ELSE report.n

\* lines 827-906; issued: the ACME order succeeds, saved: the store takes the
\* new certificate
renew_custom_domain_acme_certificate(fqdn, issued, saved) ==
    /\ UNCHANGED <<projVars, workVars, reqs, resp, amb, budget, loadVars, now, ssl_pem,
                   depVars, restVars>>
    /\ LET found == custom_domains[fqdn]
           diff == unwrap_or_default(Sub(found.not_after, now))
           op == "renew_custom_domain"
       IN IF found = NoCert
          THEN /\ UNCHANGED <<custom_domains, cert_resolver>>
               /\ tls' = TlsResponse(op, fqdn, found, FALSE, 404,
                                     "CustomDomainNotFound", NoReport)
          ELSE IF within_threshold(diff)
          THEN IF ~issued
               THEN /\ UNCHANGED <<custom_domains, cert_resolver>>
                    /\ tls' = TlsResponse(op, fqdn, found, TRUE, 500, "Internal",
                                          NoReport)
               ELSE IF ~saved
               THEN /\ UNCHANGED <<custom_domains, cert_resolver>>
                    /\ tls' = TlsResponse(op, fqdn, found, TRUE, 500, "Internal",
                                          NoReport)
               ELSE /\ custom_domains' =
                          [custom_domains EXCEPT ![fqdn] = create_certificate]
                    /\ serve(fqdn, create_certificate)
                    /\ tls' = TlsResponse(op, fqdn, found, TRUE, 200,
                                          "Certificate renewed", NoReport)
          ELSE /\ UNCHANGED <<custom_domains, cert_resolver>>
               /\ tls' = TlsResponse(op, fqdn, found, FALSE, 200,
                                     "Certificate renewal skipped",
                                     Report("duration", diff))

\* lines 908-957; fetch_certificate returns the certificate of ssl.pem
renew_gateway_acme_certificate ==
    /\ UNCHANGED <<projVars, workVars, reqs, resp, amb, budget, loadVars, now,
                   custom_domains, depVars, restVars>>
    /\ LET found == ssl_pem
           diff == Sub(found.not_after, now)
           op == "renew_gateway"
       IN IF diff = None \/ within_threshold(diff)
          THEN /\ serve("default", create_certificate)
               /\ ssl_pem' = create_certificate
               /\ tls' = TlsResponse(op, "default", found, TRUE, 200,
                                     "Renewed the gateway certificate", NoReport)
          ELSE /\ UNCHANGED <<cert_resolver, ssl_pem>>
               /\ tls' = TlsResponse(op, "default", found, FALSE, 200,
                                     "Gateway certificate was not renewed",
                                     Report("days", whole_days(diff)))

\* time passes
Tick ==
    /\ now < MaxNow
    /\ now' = now + 1
    /\ UNCHANGED <<projVars, workVars, reqs, resp, amb, budget, loadVars,
                   custom_domains, cert_resolver, ssl_pem, tls, depVars, restVars>>

----------------------------------------------------------------------------
(* The deployer: the state-change layer of deployment/state_change_layer.rs  *)
(* and the deployments the DeploymentManager takes through its pipeline      *)

\* Uuid::nil()
Nil == 0

\* a deployment_id field that is no UUID at all
NotAUuid == -1

PipelineIds == DeploymentIds \cup {Nil}

StateNames ==
    {"Queued", "Building", "Built", "Loading", "Running", "Completed", "Stopped",
     "Crashed", "Unknown"}

\* Uuid::try_parse(..).unwrap_or_default()
try_parse(v) == IF v \in DeploymentIds THEN v ELSE Nil

\* State::from_str(..).unwrap_or_default()
from_str(v) == IF v \in StateNames THEN v ELSE "Unknown"

\* the spans the layer is shown when it is looked at on its own
MaxLayerSpans == 4

\* a scope that was instrumented without a deployment_id field
NoIdField == -2

\* a scope that was instrumented without a state field
NoStateField == "absent"

\* a layer that asks for the deployment_id field alone
is_valid_id_only(id_field, state_field) == id_field # NoIdField

\* NewStateVisitor::is_valid: the span carries both fields
is_valid(id_field, state_field) ==
    id_field # NoIdField /\ state_field # NoStateField

\* a layer that takes every id as it comes
is_nil_never(id) == FALSE

\* Uuid::is_nil
is_nil(id) == id = Nil

\* what record_state returned for a span, "none" when it was not called
Res(dropped, ok) == IF dropped THEN "none" ELSE IF ok THEN "Ok" ELSE "Err"

\* StateChangeLayer::on_new_span; ok: record_state returns Ok
on_new_span(id_field, state_field, ok) ==
    LET deployment_id == try_parse(id_field)
        state == from_str(state_field)
        dropped == ~is_valid(id_field, state_field) \/ is_nil(deployment_id)
    IN /\ Len(spans) < MaxSpans
       /\ spans' = Append(spans, [id |-> id_field, state |-> state_field,
                                  res |-> Res(dropped, ok)])
       /\ IF dropped
          THEN UNCHANGED <<states, logs, deployments>>
          ELSE /\ states' = Append(states, [id |-> deployment_id, state |-> state])
               /\ logs' = Append(logs, [id |-> deployment_id,
                                        line |-> IF ok THEN "Entering state"
                                                 ELSE "failed while recording"])
               /\ deployments' =
                     IF ok /\ deployment_id \in DeploymentIds
                     THEN [deployments EXCEPT !["matrix"][deployment_id] = state]
                     ELSE deployments

\* what the actions of the deployer leave alone
DeployerFrame ==
    UNCHANGED <<projects, container, resources, workVars, reqs, resp, amb, budget,
                loadVars, tlsVars, restVars>>

\* DeploymentManager::queue_push: the deployment enters the pipeline at Queued
queue_push(d, ok) ==
    /\ stage[d] = "none"
    /\ on_new_span(d, "Queued", ok)
    /\ stage' = [stage EXCEPT ![d] = "Queued"]
    /\ DeployerFrame

\* DeploymentManager::run_push: a Built enters the pipeline at Built
run_push(d, ok) ==
    /\ stage[d] \in {"none", "ended"}
    /\ on_new_span(d, "Built", ok)
    /\ stage' = [stage EXCEPT ![d] = "Built"]
    /\ DeployerFrame

\* a pipeline that runs a queued deployment without building it
NextStagesWithoutBuild(st) ==
    CASE st = "Queued" -> {"Loading"}
      [] st = "Loading" -> {"Running", "Crashed"}
      [] st = "Running" -> {"Completed", "Crashed"}
      [] st = "Stopping" -> {"Stopped"}
      [] OTHER -> {}

\* the stages a run passes through, as the tests of the layer record them
NextStages(st) ==
    CASE st = "Queued" -> {"Building"}
      [] st = "Building" -> {"Built"}
      [] st = "Built" -> {"Loading"}
      [] st = "Loading" -> {"Running", "Crashed"}
      [] st = "Running" -> {"Completed", "Crashed"}
      [] st = "Stopping" -> {"Stopped"}
      [] OTHER -> {}

Terminal == {"Completed", "Stopped", "Crashed"}

\* the pipeline enters the next instrumented function of a deployment
PipelineStep(d, to, ok) ==
    /\ to \in NextStages(stage[d])
    /\ on_new_span(d, to, ok)
    /\ stage' = [stage EXCEPT ![d] = IF to \in Terminal THEN "ended" ELSE to]
    /\ DeployerFrame

\* DeploymentManager::kill: a running deployment is stopped; the layer sees
\* Stopped twice (tests::deployment_to_be_queued)
kill(d, ok) ==
    IF stage[d] = "Running"
    THEN /\ on_new_span(d, "Stopped", ok)
         /\ stage' = [stage EXCEPT ![d] = "Stopping"]
    ELSE UNCHANGED <<depVars, deployments>>

\* handlers/mod.rs, create_service: a new id, the record, then queue_push
create_service(d, ok) ==
    /\ deployments["matrix"][d] = "None"
    /\ stage[d] = "none"
    /\ Len(spans) < MaxSpans
    /\ LET inserted == [deployments EXCEPT !["matrix"][d] = "Queued"]
       IN /\ spans' = Append(spans, [id |-> d, state |-> "Queued",
                                     res |-> Res(FALSE, ok)])
          /\ states' = Append(states, [id |-> d, state |-> "Queued"])
          /\ logs' = Append(logs, [id |-> d,
                                   line |-> IF ok THEN "Entering state"
                                            ELSE "failed while recording"])
          /\ deployments' = inserted
    /\ stage' = [stage EXCEPT ![d] = "Queued"]
    /\ DeployerFrame

\* handlers/mod.rs, stop_service: the active deployment is killed
stop_service(ok) ==
    /\ \E d \in DeploymentIds :
          /\ deployments["matrix"][d] = "Running"
          /\ kill(d, ok)
    /\ DeployerFrame

\* handlers/mod.rs, delete_deployment: a known deployment is killed
delete_deployment(d, ok) ==
    /\ deployments["matrix"][d] # "None"
    /\ kill(d, ok)
    /\ DeployerFrame

\* handlers/mod.rs, start_deployment: a runnable deployment is run again;
\* which deployments Persistence::get_runnable_deployment returns is not
\* decided here
start_deployment(d, runnable, ok) ==
    /\ deployments["matrix"][d] # "None"
    /\ runnable
    /\ run_push(d, ok)

\* an instrumented scope whose deployment_id field is no UUID
ForeignSpan(state_field) ==
    /\ on_new_span(NotAUuid, state_field, TRUE)
    /\ UNCHANGED stage
    /\ DeployerFrame

\* any instrumented scope of the process: the layer is registered for all of
\* them, whatever fields they carry
NewSpan(id_field, state_field, ok) ==
    /\ Len(spans) < MaxLayerSpans
    /\ on_new_span(id_field, state_field, ok)
    /\ UNCHANGED stage
    /\ DeployerFrame

----------------------------------------------------------------------------
(* Specifications *)

InitIdle ==
    /\ queue = <<>>
    /\ executing = {}
    /\ slot = [n \in AllNames |-> 0]
    /\ reqs = [r \in ReqIds |-> Req0]
    /\ resp = Req0
    /\ amb = AmbIdle

InitNoLoad ==
    /\ running_builds = [b \in BuildIds |-> "none"]
    /\ cpus = 1
    /\ load = NoLoad

\* a gateway without custom domains; its own certificate is fresh
InitNoTls ==
    /\ now = 0
    /\ custom_domains = [f \in Fqdns |-> NoCert]
    /\ ssl_pem = Cert(Days(CertDays))
    /\ cert_resolver = [k \in Fqdns \cup {"default"} |->
                          IF k = "default" THEN ssl_pem ELSE NoCert]
    /\ tls = NoTls

\* a deployer that has seen no deployment yet
InitNoDeployer ==
    /\ spans = <<>>
    /\ states = <<>>
    /\ logs = <<>>
    /\ stage = [d \in PipelineIds |-> "none"]

\* the worker's channel holds no task of another project and is open
InitChan ==
    /\ backlog = 0
    /\ closed = FALSE
    /\ health = "none"
    /\ paging = NoPaging
    /\ bounced = NoBounce

InitAux == InitNoTls /\ InitNoDeployer /\ InitChan

InitEmptyStore ==
    /\ projects = [n \in AllNames |-> NoProject]
    /\ container = [n \in AllNames |-> "NotFound"]
    /\ deployments = [n \in AllNames |-> NoDeployments]
    /\ resources = [n \in AllNames |-> {}]

\* The gateway after start-up with an empty store
Init ==
    /\ InitEmptyStore
    /\ InitIdle
    /\ InitAux
    /\ InitNoLoad
    /\ budget = MaxBudget

Worker ==
    \/ WorkerDispatch
    \/ \E t \in executing, probe \in BOOLEAN : WorkerPoll(t, probe)

Ambulance ==
    \/ AmbulanceTick
    \/ \E n \in AllNames : AmbulanceSend(n)
    \/ AmbulanceDone

\* the steps of a delete_project request in flight
DeleteProjectSteps ==
    \/ \E r \in ReqIds : DeleteProjectRestart(r)
    \/ \E r \in ReqIds : DeleteProjectRestarted(r)
    \/ \E r \in ReqIds : DeleteProjectCaller(r)
    \/ \E r \in ReqIds : Woken(r)
    \/ \E r \in ReqIds : DeleteProjectList(r)
    \/ \E r \in ReqIds, ok \in BOOLEAN : DeleteProjectStop(r, ok)
    \/ \E r \in ReqIds, ok \in BOOLEAN : DeleteProjectResource(r, ok)
    \/ \E r \in ReqIds : DeleteProjectDestroy(r)
    \/ \E r \in ReqIds : DeleteProjectRemove(r)

\* a client that sends one request at a time
Solo == {Min(ReqIds)}

\* One project of one user through its whole life; the requests come one
\* after the other, the worker and the health scheduler run beside them
Next ==
    \/ \E r \in Solo : CreateProjectStart(r, "neo", "matrix", 3)
    \/ \E r \in Solo : CreateProjectCapacity(r)
    \/ \E r \in Solo : CreateProjectCreate(r)
    \/ \E r \in Solo : CreateProjectSend(r)
    \/ \E r \in Solo : DestroyProjectStart(r, "neo", "matrix")
    \/ \E r \in Solo : DestroyProjectSend(r)
    \/ \E r \in Solo : DeleteProjectStart(r, "neo", "matrix", FALSE)
    \/ DeleteProjectSteps
    \/ \E r \in Solo : RequestCustomDomainStart(r, "matrix", "example.com", TRUE)
    \/ \E r \in Solo : RequestCustomDomainSend(r)
    \/ ContainerExit("matrix")
    \/ Worker
    \/ Ambulance

Spec == Init /\ [][Next]_vars

----------------------------------------------------------------------------
(* Claims about the life of one project, checked under Spec *)

\* the transitions of the ProjectFSM
FSMStep(a, b) ==
    \/ b.tag = "Destroying"
    \/ b.tag = "Errored"
    \/ a.tag = "Creating" /\ b.tag = "Starting" /\ b.n = 0
    \/ a.tag = "Recreating" /\ b.tag = "Starting" /\ b.n = 0
    \/ a.tag = "Starting" /\ b.tag = "Started"
    \/ a.tag = "Starting" /\ b.tag = "Restarting" /\ b.n = a.n + 1 /\ a.n < MAX_RESTARTS
    \/ a.tag = "Restarting" /\ b.tag = "Starting" /\ b.n = a.n
    \/ a.tag = "Started" /\ b.tag = "Ready"
    \/ a.tag = "Ready" /\ b.tag = "Rebooting"
    \/ a.tag = "Rebooting" /\ b.tag = "Stopping"
    \/ a.tag = "Stopping" /\ b.tag = "Stopped"
    \/ a.tag = "Stopped" /\ b.tag = "Starting" /\ b.n = 0
    \/ a.tag = "Destroying" /\ b.tag = "Destroyed"
    \/ HasContainer(a) /\ b.tag = "Recreating"

\* a re-creation: Creating is committed over a state that holds no container
ReEntry(a, b) == ~HasContainer(a) /\ b.tag = "Creating"

\* a record enters the store in the state Creating
StartsAtCreating(n) ==
    projects[n] = NoProject /\ projects'[n] # NoProject
        => projects'[n].state.tag = "Creating"

\* ProjectStore::update_state commits another state for the project
Committed(n) ==
    /\ projects[n] # NoProject /\ projects'[n] # NoProject
    /\ projects'[n].state # projects[n].state

Arrival(kind) ==
    /\ budget' = budget - 1
    /\ \/ reqs' = reqs /\ resp'.kind = kind
       \/ \E r \in ReqIds : reqs[r].pc = "idle" /\ reqs'[r].kind = kind

StateIs(n, tag) == projects[n] # NoProject /\ projects[n].state.tag = tag

\* the request is answered in the step it arrives in, with the state it found,
\* and neither the store nor the worker's channel has changed
AnsweredAsNoop(tag) ==
    /\ reqs' = reqs
    /\ resp'.status = 200 /\ resp'.body = tag /\ resp'.eff = <<>>
    /\ UNCHANGED <<projects, queue, executing>>

\* C8: DELETE /projects/{name} on a Destroyed project enqueues no task, leaves
\* the stored state Destroyed and reports Destroyed, every time it is sent.
C8_DestroyOnDestroyedIsNoop ==
    [][Arrival("destroy") /\ StateIs("matrix", "Destroyed") => AnsweredAsNoop("Destroyed")]_vars

\* a DELETE has been answered on a project that was already Destroyed
C8_Witness ==
    /\ resp.kind = "destroy" /\ resp.found = "Destroyed"
    /\ resp.body = "Destroyed"
    /\ StateIs("matrix", "Destroyed")
    /\ budget = 0

\* C9, as stated: DELETE /projects/{name} on a Stopped project enqueues no
\* task and reports Stopped.
C9_DestroyOnStoppedIsNoop ==
    resp.kind = "destroy" /\ resp.found = "Stopped"
        => resp.eff = <<>> /\ resp.body = "Stopped"

\* C9, amended: DELETE /projects/{name} on a Stopped project is not a no-op:
\* it enqueues the destroy task and reports Destroying; the handler answers
\* without a task only when it found the project Destroyed.
C9_DestroyOnStoppedDestroys ==
    resp.kind = "destroy" /\ resp.status = 200 =>
        /\ resp.found = "Stopped" => resp.eff = <<"enqueued">> /\ resp.body = "Destroying"
        /\ resp.eff = <<>> <=> resp.found = "Destroyed"

\* a DELETE on a Stopped project has been answered and its task has run
C9_Witness ==
    /\ resp.kind = "destroy" /\ resp.found = "Stopped"
    /\ resp.body = "Destroying"
    /\ StateIs("matrix", "Destroyed")

----------------------------------------------------------------------------
(* Two running projects of one account: the API handlers, the proxy wake-ups *)
(* and the health scheduler all enqueue tasks                                *)

Pair == {"matrix", "reloaded"}

ReadyProject(u) == ProjectRecord(u, Simple("Ready"), 3)

InitWorker ==
    /\ projects = [n \in AllNames |-> IF n \in Pair THEN ReadyProject("trinity") ELSE NoProject]
    /\ container = [n \in AllNames |-> IF n \in Pair THEN "Running" ELSE "NotFound"]
    /\ deployments = [n \in AllNames |-> NoDeployments]
    /\ resources = [n \in AllNames |-> {}]
    /\ InitIdle
    /\ InitAux
    /\ InitNoLoad
    /\ budget = MaxBudget

NextWorker ==
    \/ \E r \in Solo, n \in Pair : DestroyProjectStart(r, "trinity", n)
    \/ \E r \in Solo : DestroyProjectSend(r)
    \/ \E r \in Solo, n \in Pair : RouteProjectStart(r, "trinity", n, 0)
    \/ \E r \in Solo : RouteProjectFind(r)
    \/ \E r \in Solo : Woken(r)
    \/ \E r \in Solo : RouteProjectForward(r)
    \/ Worker
    \/ Ambulance

SpecWorker == InitWorker /\ [][NextWorker]_vars

\* C1: at most one task of a project is executing a step at any time, whoever
\* enqueued the tasks; tasks of different projects may execute together.
C1_OneTaskPerProject ==
    \A t1, t2 \in executing : t1.project = t2.project => t1 = t2

\* two tasks of different projects execute together while a second task of one
\* of these projects waits in the channel
C1_Witness ==
    \E t1, t2 \in executing :
        /\ t1.project # t2.project
        /\ \E i \in 1 .. Len(queue) : queue[i].project = t1.project /\ queue[i].id # t1.id

----------------------------------------------------------------------------
(* A Basic account that already owns two projects sends create requests on   *)
(* two connections                                                           *)

StoppedProject(u) == ProjectRecord(u, Simple("Stopped"), 3)

InitLimit ==
    /\ projects = [n \in AllNames |-> IF n \in Pair THEN StoppedProject("neo") ELSE NoProject]
    /\ container = [n \in AllNames |-> IF n \in Pair THEN "Exited" ELSE "NotFound"]
    /\ deployments = [n \in AllNames |-> NoDeployments]
    /\ resources = [n \in AllNames |-> {}]
    /\ InitIdle
    /\ InitAux
    /\ InitNoLoad
    /\ budget = MaxBudget

NextLimit ==
    \/ \E r \in ReqIds, n \in {"project", "resurrections"} : CreateProjectStart(r, "neo", n, 3)
    \/ \E r \in ReqIds : CreateProjectCapacity(r)
    \/ \E r \in ReqIds : CreateProjectCreate(r)
    \/ \E r \in ReqIds : CreateProjectSend(r)
    \/ \E r \in ReqIds, n \in AllNames : GetProject(r, "neo", n)
    \/ Worker

SpecLimit == InitLimit /\ [][NextLimit]_vars

\* C3: after a successful create_project of a Basic, non-admin account the
\* account owns at most MAX_PROJECTS_DEFAULT projects, and a request beyond
\* the limit is answered 403 ProjectLimitExceeded without a record.
C3_BasicAccountWithinLimit ==
    /\ resp.kind = "create" /\ resp.status = 200
          /\ Tier(resp.user) = "Basic" /\ ~is_admin(resp.user)
          => get_project_count(resp.user) <= MAX_PROJECTS_DEFAULT
    /\ resp.kind = "create" /\ resp.body = "ProjectLimitExceeded"
          => resp.status = 403 /\ resp.eff = <<>>

----------------------------------------------------------------------------
(* Admission by the number of running projects: the store holds up to three  *)
(* projects, running or stopped, when the requests arrive                    *)

InitAdmit ==
    /\ \E m, l \in {"Ready", "Stopped"}, s \in {"Ready", "None"} :
          /\ projects = [n \in AllNames |->
                CASE n = "matrix" -> ProjectRecord("neo", Simple(m), 3)
                  [] n = "reloaded" -> ProjectRecord("trinity", Simple(l), 3)
                  [] n = "resurrections" /\ s = "Ready" -> ReadyProject("root")
                  [] OTHER -> NoProject]
          /\ container = [n \in AllNames |->
                CASE n = "matrix" -> IF m = "Ready" THEN "Running" ELSE "Exited"
                  [] n = "reloaded" -> IF l = "Ready" THEN "Running" ELSE "Exited"
                  [] n = "resurrections" /\ s = "Ready" -> "Running"
                  [] OTHER -> "NotFound"]
    /\ deployments = [n \in AllNames |-> NoDeployments]
    /\ resources = [n \in AllNames |-> {}]
    /\ InitIdle
    /\ InitAux
    /\ InitNoLoad
    /\ budget = MaxBudget

Owner(n) == IF n = "matrix" THEN "neo" ELSE "trinity"

NextAdmit ==
    \/ \E r \in Solo, u \in {"neo", "trinity"}, n \in {"project", "cch23-project"} :
          CreateProjectStart(r, u, n, 3)
    \/ \E r \in Solo : CreateProjectCapacity(r)
    \/ \E r \in Solo : CreateProjectCreate(r)
    \/ \E r \in Solo : CreateProjectSend(r)
    \/ \E r \in Solo, n \in Pair : RouteProjectStart(r, Owner(n), n, 0)
    \/ \E r \in Solo : RouteProjectFind(r)
    \/ \E r \in Solo : Woken(r)
    \/ \E r \in Solo : RouteProjectForward(r)
    \/ Worker

SpecAdmit == InitAdmit /\ [][NextAdmit]_vars

Gated(q) == q.kind \in {"create", "route"} /\ ~is_admin(q.user) /\ q.pc = "done"

Rejected(q) == q.status = 503 /\ q.body = "CapacityExhausted"

\* C4: a non-Pro caller is rejected with 503 once the count of running
\* projects has reached the soft limit, a Pro caller is admitted between the
\* soft and the hard limit and rejected with 503 at the hard limit; a
\* rejected request creates no record and enqueues no task.
C4_AdmissionByContainerCount ==
    Gated(resp) /\ (resp.kind = "route" => resp.status # 404) =>
        /\ Tier(resp.user) # "Pro" /\ resp.seen >= SoftLimit => Rejected(resp)
        /\ Tier(resp.user) = "Pro" /\ resp.seen >= SoftLimit /\ resp.seen < HardLimit
              => ~Rejected(resp)
        /\ resp.seen >= HardLimit => Rejected(resp)
        /\ Rejected(resp) => resp.eff = <<>>

\* a Pro caller has woken a stopped project between the soft and the hard limit
C4_Witness ==
    /\ Gated(resp) /\ resp.kind = "route" /\ Tier(resp.user) = "Pro"
    /\ resp.seen >= SoftLimit /\ resp.seen < HardLimit
    /\ resp.eff = <<"wake">>
    /\ resp.status = 200

----------------------------------------------------------------------------
(* The full delete of a project that has deployments and resources *)

InitDelete ==
    /\ \E st \in {"Ready", "Stopped", "Destroyed", "Errored"},
          d1 \in {"Building", "Running", "Crashed"},
          d2 \in {"None", "Running"},
          res \in {{}, ResourceTypes} :
          /\ projects = [n \in AllNames |->
                IF n = "matrix"
                THEN ProjectRecord("neo", Simple(st), 3)
                ELSE NoProject]
          /\ container = [n \in AllNames |->
                IF n # "matrix" THEN "NotFound"
                ELSE CASE st = "Ready" -> "Running"
                       [] st = "Stopped" -> "Exited"
                       [] OTHER -> "NotFound"]
          /\ deployments = [n \in AllNames |->
                IF n # "matrix" THEN NoDeployments
                ELSE [d \in DeploymentIds |->
                        IF d = 1 THEN d1 ELSE IF d = 2 THEN d2 ELSE "None"]]
          /\ resources = [n \in AllNames |-> IF n = "matrix" THEN res ELSE {}]
    /\ InitIdle
    /\ InitAux
    /\ InitNoLoad
    /\ budget = MaxBudget

NextDelete ==
    \/ \E r \in Solo, dry_run \in BOOLEAN : DeleteProjectStart(r, "neo", "matrix", dry_run)
    \/ DeleteProjectSteps
    \/ \E r \in Solo : GetProject(r, "neo", "matrix")
    \/ \E r \in Solo : CreateProjectStart(r, "neo", "matrix", 3)
    \/ \E r \in Solo : CreateProjectCapacity(r)
    \/ \E r \in Solo : CreateProjectCreate(r)
    \/ \E r \in Solo : CreateProjectSend(r)
    \/ Worker
    \/ Ambulance

SpecDelete == InitDelete /\ [][NextDelete]_vars

\* the request got as far as the deployment list of the project's deployer
Listed(q) == q.kind = "delete" /\ q.pc = "done" /\ q.deps # <<>>

Occurs(q, e) == \E i \in 1 .. Len(q.eff) : q.eff[i] = e

\* the destroy task was enqueued and the record removed
Deleted(q) == Occurs(q, "enqueued") /\ Occurs(q, "removed")

AllInDeletableState(deps) ==
    \A d \in DeploymentIds :
        deps[d] \in {"None", "Running", "Completed", "Crashed", "Stopped"}

RefusedAsBuilding(q) == q.status = 400 /\ q.body = "ProjectHasBuildingDeployment"

\* what the request did once its project was ready to be asked
SinceReady(q) == SelectSeq(q.eff, LAMBDA e : e \notin {"restart", "wake"})

C6_BuildingRefusalChangesNothing ==
    resp.kind = "delete" /\ RefusedAsBuilding(resp) =>
        /\ resp.eff = <<>>
        /\ StateIs(resp.name, resp.found)

\* C6, amended: when delete_project fails with ProjectHasBuildingDeployment
\* the record is in the store, nothing was stopped or deleted and no destroy
\* task was enqueued; the request has changed nothing at all only when it
\* found the project Ready and did not have to wake it: a project found in
\* another state than Ready or Stopped was restarted by a task of the
\* request, and a stopped project was woken by one.
C6_BuildingRefusalAfterReady ==
    resp.kind = "delete" /\ RefusedAsBuilding(resp) =>
        /\ SinceReady(resp) = <<>>
        /\ resp.found = "Ready" /\ ~Occurs(resp, "wake") => resp.eff = <<>>
        /\ resp.found = "Stopped" => Occurs(resp, "wake")
        /\ resp.found \notin {"Ready", "Stopped"} => Occurs(resp, "restart")
        /\ projects[resp.name] # NoProject

\* the delete of a Ready project with a building deployment has been refused
C6_Witness ==
    /\ resp.kind = "delete" /\ RefusedAsBuilding(resp)
    /\ resp.found = "Ready" /\ resp.eff = <<>>
    /\ StateIs("matrix", "Ready")
    /\ deployments["matrix"][1] = "Building" /\ deployments["matrix"][2] = "Running"

\* stops, then resource deletions, then the task, its handle and the removal
InDeleteOrder(q) ==
    LET E == SinceReady(q)
        k == Cardinality(running_deployments(q.deps))
        m == q.arg
    IN /\ Len(E) = k + m + 3
       /\ \A i \in 1 .. k : E[i] = "stopped"
       /\ \A i \in k + 1 .. k + m : E[i] = "deleted"
       /\ SubSeq(E, k + m + 1, k + m + 3) = <<"enqueued", "resolved", "removed">>

DeletedNow(n) ==
    /\ resp' # resp
    /\ resp'.kind = "delete" /\ resp'.name = n
    /\ resp'.body = "project successfully deleted"

\* C7: when delete_project answers "project successfully deleted", every
\* Running deployment was stopped, then every resource deleted, then the
\* destroy task enqueued and its handle resolved, and only then the record
\* removed; from then on a GET of the name is answered 404 until a
\* create_project creates the record again.
C7_DeleteOrderThenNotFound ==
    [][\A n \in AllNames :
          /\ DeletedNow(n) =>
                /\ InDeleteOrder(resp')
                /\ StateIs(n, "Destroyed")
                /\ \A d \in DeploymentIds : deployments[n][d] # "Running"
                /\ resources[n] = {}
                /\ projects'[n] = NoProject
          /\ Arrival("get") /\ resp'.name = n /\ projects[n] = NoProject
                => resp'.status = 404
          /\ projects[n] = NoProject /\ projects'[n] # NoProject
                => \E r \in ReqIds : reqs[r].kind = "create" /\ reqs'[r].pc = "send"
      ]_vars

\* a deleted project with two stopped deployments and two deleted resources
\* is asked for and not found
C7_Witness ==
    /\ resp.kind = "get" /\ resp.status = 404
    /\ projects["matrix"] = NoProject
    /\ resources["matrix"] = {}
    /\ \A d \in {1, 2} : deployments["matrix"][d] = "Stopped"

----------------------------------------------------------------------------
(* The build queue alone, on hosts of several sizes *)

InitLoad ==
    /\ InitEmptyStore
    /\ InitIdle
    /\ InitAux
    /\ budget = MaxBudget
    /\ running_builds = [b \in BuildIds |-> "none"]
    /\ cpus \in CpuChoices
    /\ load = NoLoad

NextLoad ==
    \/ \E id \in BuildIds : post_load(id)
    \/ \E id \in BuildIds : delete_load(id)
    \/ get_load_admin
    \/ delete_load_admin
    \/ \E id \in BuildIds : ExpireBuild(id)

SpecLoad == InitLoad /\ [][NextLoad]_vars

\* C10, as stated: in every LoadResponse has_capacity is true exactly when the
\* builds_count of the same response is strictly below the capacity.
C10_HasCapacityIsCountBelowCapacity ==
    load # NoLoad => (load.has_capacity <=> load.builds_count < capacity)

\* C10, amended: builds_count is always the number of live grants after the
\* operation; has_capacity is builds_count < capacity for delete_load,
\* get_load_admin and delete_load_admin, while post_load reports the capacity
\* it found before it inserted the grant (live grants before < capacity).
C10_HasCapacityAmended ==
    load # NoLoad =>
        /\ load.builds_count = load.live
        /\ IF load.op = "post_load"
           THEN load.has_capacity <=> load.before < capacity
           ELSE load.has_capacity <=> load.builds_count < capacity

\* post_load has just filled the queue and still reports has_capacity
C10_Witness ==
    /\ load # NoLoad
    /\ load.op = "post_load"
    /\ load.has_capacity
    /\ load.builds_count = capacity
    /\ load.live = capacity

----------------------------------------------------------------------------
(* The certificates of a gateway that was started with stored custom         *)
(* domains, while time passes and the admin asks for renewals                *)

StoredDays == {1, 30, 31, 32}

StoredCerts == {Cert(Days(d)) : d \in StoredDays}

InitTls ==
    /\ projects = [n \in AllNames |-> IF n = "matrix" THEN ReadyProject("neo") ELSE NoProject]
    /\ container = [n \in AllNames |-> IF n = "matrix" THEN "Running" ELSE "NotFound"]
    /\ deployments = [n \in AllNames |-> NoDeployments]
    /\ resources = [n \in AllNames |-> {}]
    /\ InitIdle /\ InitNoLoad /\ InitNoDeployer
    /\ budget = MaxBudget
    /\ now = 0
    /\ custom_domains \in [Fqdns -> StoredCerts \cup {NoCert}]
    /\ custom_domains["shuttle.dev"] \in {NoCert, Cert(Days(31))}
    /\ ssl_pem \in {Cert(Days(1)), Cert(Days(31))}
    \* main.rs, lines 165-188: every stored custom domain is served, and the
    \* gateway's own certificate by default
    /\ cert_resolver = [k \in Fqdns \cup {"default"} |->
                          IF k = "default" THEN ssl_pem ELSE custom_domains[k]]
    /\ tls = NoTls
    /\ InitChan

NextTls ==
    \/ Tick
    \/ \E f \in Fqdns, issued, saved \in BOOLEAN :
          renew_custom_domain_acme_certificate(f, issued, saved)
    \/ renew_gateway_acme_certificate
    \/ \E r \in Solo, f \in Fqdns, issued \in BOOLEAN :
          RequestCustomDomainStart(r, "matrix", f, issued)
    \/ \E r \in Solo : RequestCustomDomainSend(r)

SpecTls == InitTls /\ [][NextTls]_vars

\* a renewal handler has answered for a certificate it found
Renewal(t) == t.op \in {"renew_custom_domain", "renew_gateway"} /\ t.found # NoCert

\* not_after - now when the handler ran; zero or less for an expired one
Remaining(t) == t.found.not_after - t.at

SkippedWithReport(t) ==
    /\ t.status = 200
    /\ ~t.changed
    /\ ReportedDays(t.report) = whole_days(Remaining(t))

C12_ServedCertificatesNotExpired ==
    \A f \in Fqdns : cert_resolver[f] # NoCert => cert_resolver[f].not_after > now

----------------------------------------------------------------------------
(* The deployer of one project: deploys, stops, deletions and restarts of    *)
(* deployments while the pipeline runs them                                  *)

InitDeployer ==
    /\ InitEmptyStore
    /\ InitIdle /\ InitNoLoad /\ InitNoTls /\ InitNoDeployer
    /\ budget = MaxBudget
    /\ InitChan

\* Uuid::new_v4(): an id no deployment has had
new_v4 == Min({d \in DeploymentIds : deployments["matrix"][d] = "None"} \cup {MaxDeployments + 1})

NextDeployer ==
    \/ \E ok \in BOOLEAN : new_v4 \in DeploymentIds /\ create_service(new_v4, ok)
    \/ \E ok \in BOOLEAN : queue_push(Nil, ok)
    \/ \E d \in PipelineIds, to \in StateNames, ok \in BOOLEAN : PipelineStep(d, to, ok)
    \/ \E ok \in BOOLEAN : stop_service(ok)
    \/ \E d \in DeploymentIds, ok \in BOOLEAN : delete_deployment(d, ok)
    \/ \E d \in DeploymentIds, runnable, ok \in BOOLEAN : start_deployment(d, runnable, ok)
    \/ \E state_field \in {"Running", "running?"} : ForeignSpan(state_field)

SpecDeployer == InitDeployer /\ [][NextDeployer]_vars

\* the states recorded for one deployment, in the order they were handed over
RecordedOf(d) == SelectSeq(states, LAMBDA u : u.id = d)

\* Queued -> Building -> Built -> Loading -> Running -> {Completed | Stopped | Crashed}
ChainStep(a, b) ==
    \/ a = "Queued" /\ b = "Building"
    \/ a = "Building" /\ b = "Built"
    \/ a = "Built" /\ b = "Loading"
    \/ a = "Loading" /\ b = "Running"
    \/ a = "Running" /\ b \in Terminal

Parseable(sp) == sp.id \in DeploymentIds /\ sp.state # NoStateField

\* C14: the recorded states and the log items are exactly those of the spans
\* whose deployment_id is a UUID other than nil, in the order of the spans: a
\* span with a nil or unparseable id records nothing, emits no log item and
\* leaves the records of the other deployments as they are.
C14_NilAndInvalidIdsAreDropped ==
    LET kept == SelectSeq(spans, Parseable)
    IN /\ states = [i \in 1 .. Len(kept) |-> [id |-> kept[i].id, state |-> kept[i].state]]
       /\ [i \in 1 .. Len(logs) |-> logs[i].id] = [i \in 1 .. Len(kept) |-> kept[i].id]

\* spans with a nil id and with an unparseable id were dropped between the
\* records of another deployment
C14_Witness ==
    /\ \E i, j, k \in 1 .. Len(spans) :
          /\ i < j /\ j < k
          /\ Parseable(spans[i]) /\ Parseable(spans[k])
          /\ spans[j].id = Nil
    /\ \E j \in 1 .. Len(spans) : spans[j].id = NotAUuid
    /\ Len(states) >= 2

----------------------------------------------------------------------------
(* Traffic for the user proxy: the project matrix with its custom domain     *)
(* example.com, hosts that name it and hosts that name nothing               *)

Hosts ==
    {<<"matrix", "shuttleapp", "rs">>, <<"project", "shuttleapp", "rs">>,
     <<"www", "matrix", "shuttleapp", "rs">>, <<"shuttleapp", "rs">>,
     <<"example", "com">>, <<"shuttle", "dev">>, <<"Not A Name", "shuttleapp", "rs">>}

InitProxy ==
    /\ \E st \in {"Ready", "Stopped", "Destroyed", "Errored"} :
          /\ projects = [n \in AllNames |->
                IF n = "matrix"
                THEN ProjectRecord("neo", Simple(st), 3)
                ELSE NoProject]
          /\ container = [n \in AllNames |->
                IF n # "matrix" THEN "NotFound"
                ELSE CASE st = "Ready" -> "Running"
                       [] st = "Stopped" -> "Exited"
                       [] OTHER -> "NotFound"]
    /\ deployments = [n \in AllNames |-> NoDeployments]
    /\ resources = [n \in AllNames |-> {}]
    /\ InitIdle /\ InitNoLoad /\ InitNoDeployer
    /\ budget = MaxBudget
    /\ now = 0
    /\ custom_domains = [f \in Fqdns |->
                           IF f = "example.com" THEN Cert(Days(CertDays)) ELSE NoCert]
    /\ ssl_pem = Cert(Days(CertDays))
    /\ cert_resolver = [k \in Fqdns \cup {"default"} |->
                          IF k = "default" THEN ssl_pem ELSE custom_domains[k]]
    /\ tls = NoTls
    /\ InitChan

NextProxy ==
    \/ \E r \in Solo, host \in Hosts \cup {NoHost} : ProxyStart(r, host)
    \/ \E r \in Solo : ProxyFind(r)
    \/ \E r \in Solo : Woken(r)
    \/ \E r \in Solo : ProxyForward(r)
    \/ ContainerExit("matrix")
    \/ Worker
    \/ Ambulance

SpecProxy == InitProxy /\ [][NextProxy]_vars

\* the host of the request is a one-label subdomain of the public FQDN
OneLabelSubdomain(host) ==
    Len(host) = Len(public) + 1 /\ \A i \in 1 .. Len(public) : host[i + 1] = public[i]

\* the host names nothing the gateway serves
UnknownHost(host) ==
    /\ host # NoHost
    /\ ~OneLabelSubdomain(host)
    /\ host # <<"example", "com">>

\* C16: the proxy calls upstream only when the project it resolved carries a
\* target_ip; without a target_ip it answers ProjectNotReady (503) and calls
\* nothing; for a host that is neither a one-label subdomain of the public
\* FQDN nor a known custom domain it answers not found, looks up and wakes no
\* project and calls nothing.
C16_ForwardOnlyWithTargetIp ==
    resp.kind = "proxy" =>
        /\ Occurs(resp, "upstream") => resp.found \in {"Started", "Ready"}
        /\ (Occurs(resp, "find") /\ resp.found \notin {"none", "Started", "Ready"}
              /\ resp.body # "ProjectNotFound")
              => resp.status = 503 /\ resp.body = "ProjectNotReady"
                    /\ ~Occurs(resp, "upstream")
        /\ UnknownHost(resp.deps)
              => resp.status = 404 /\ resp.body = "CustomDomainNotFound"
                    /\ resp.eff = <<>>

\* a request for the custom domain found the project stopped, woke it and was
\* forwarded
C16_Witness ==
    /\ resp.kind = "proxy" /\ resp.deps = <<"example", "com">>
    /\ resp.eff = <<"find", "wake", "upstream">>
    /\ resp.status = 200

----------------------------------------------------------------------------
(* Two accounts: neo owns matrix and reloaded, trinity owns nothing and      *)
(* sends GET and DELETE for neo's project and for a name nobody has          *)

InitScope ==
    /\ \E m \in {"Ready", "Stopped", "Destroyed"} :
          /\ projects = [n \in AllNames |->
                CASE n = "matrix" -> ReadyProject("neo")
                  [] n = "reloaded" -> ProjectRecord("neo", Simple(m), 3)
                  [] OTHER -> NoProject]
          /\ container = [n \in AllNames |->
                CASE n = "matrix" -> "Running"
                  [] n = "reloaded" -> IF m = "Ready" THEN "Running"
                                       ELSE IF m = "Stopped" THEN "Exited" ELSE "NotFound"
                  [] OTHER -> "NotFound"]
    /\ deployments = [n \in AllNames |-> NoDeployments]
    /\ resources = [n \in AllNames |-> {}]
    /\ InitIdle
    /\ InitAux
    /\ InitNoLoad
    /\ budget = MaxBudget

NextScope ==
    \/ \E r \in ReqIds, u \in {"neo", "trinity"}, n \in {"reloaded", "project"} :
          GetProject(r, u, n)
    \/ \E r \in ReqIds, u \in {"neo", "trinity"}, n \in {"reloaded", "project"} :
          DestroyProjectStart(r, u, n)
    \/ \E r \in ReqIds : DestroyProjectSend(r)
    \/ Worker

SpecScope == InitScope /\ [][NextScope]_vars

\* the request that arrives in this step: its response when the handler has
\* returned in the same step, its connection otherwise
Arrived ==
    IF reqs' = reqs THEN resp' ELSE reqs'[CHOOSE r \in ReqIds : reqs'[r] # reqs[r]]

\* the project is somebody else's and the caller is no admin
Foreign(q) ==
    /\ projects[q.name] # NoProject
    /\ projects[q.name].owner # q.user /\ ~is_admin(q.user)

Missing(q) == projects[q.name] = NoProject

\* answered 404 ProjectNotFound in the step of arrival, nothing enqueued and
\* nothing changed
NotFoundNoop ==
    /\ reqs' = reqs
    /\ resp'.status = 404 /\ resp'.body = "ProjectNotFound" /\ resp'.eff = <<>>
    /\ UNCHANGED <<projects, container, queue, executing>>

\* C17: GET and DELETE /projects/{name} sent by a non-admin account that does
\* not own the project are answered 404 ProjectNotFound, the same answer a
\* name without a project gets; no task is enqueued and no state changes.
C17_ForeignProjectLooksMissing ==
    [][\A kind \in {"get", "destroy"} :
          Arrival(kind) /\ (Foreign(Arrived) \/ Missing(Arrived)) => NotFoundNoop]_vars

\* trinity's DELETE of neo's live project has been answered 404, and so has a
\* request for a name without a project
C17_Witness ==
    /\ resp.kind = "destroy" /\ resp.user = "trinity" /\ resp.name = "reloaded"
    /\ resp.status = 404 /\ resp.body = "ProjectNotFound"
    /\ projects["reloaded"] # NoProject /\ projects["reloaded"].owner = "neo"
    /\ projects["reloaded"].state.tag = "Ready"
    /\ queue = <<>> /\ executing = {}
    /\ budget < MaxBudget - 1

----------------------------------------------------------------------------
(* A Basic account at its project limit and a Pro account create projects    *)
(* of both classes, one request after the other, with idle times of 0 and 30 *)

IdleArgs == {0, 30}

InitCch ==
    /\ projects = [n \in AllNames |->
          IF n \in {"matrix", "reloaded", "project"} THEN StoppedProject("neo") ELSE NoProject]
    /\ container = [n \in AllNames |->
          IF n \in {"matrix", "reloaded", "project"} THEN "Exited" ELSE "NotFound"]
    /\ deployments = [n \in AllNames |-> NoDeployments]
    /\ resources = [n \in AllNames |-> {}]
    /\ InitIdle
    /\ InitAux
    /\ InitNoLoad
    /\ budget = MaxBudget

NextCch ==
    \/ \E r \in Solo, u \in {"neo", "trinity"}, idle \in IdleArgs,
          n \in {"resurrections", "cch23-project", "cch23-matrix"} :
          CreateProjectStart(r, u, n, idle)
    \/ \E r \in Solo : CreateProjectCapacity(r)
    \/ \E r \in Solo : CreateProjectCreate(r)
    \/ \E r \in Solo : CreateProjectSend(r)
    \/ Worker

SpecCch == InitCch /\ [][NextCch]_vars

\* C18, as stated: a create request for a cch-class name is never answered
\* ProjectLimitExceeded, however many projects the caller owns.
C18_CchNeverOverLimit ==
    resp.kind = "create" /\ is_cch_project(resp.name) => resp.body # "ProjectLimitExceeded"

\* the limit decision a cch-class create request takes with it when it arrives
CchAllowance ==
    Arrival("create") /\ is_cch_project(Arrived.name) =>
        (Arrived.can <=>
            \/ is_admin(Arrived.user)
            \/ get_project_count(Arrived.user) <= project_limit(Arrived.user))

\* C18, amended: a cch-class name is counted with one project fewer, not left
\* uncounted: the request passes the limit exactly when the caller owns at most
\* as many projects as its tier allows (3 for Basic), so a Basic account that
\* owns 3 projects succeeds if the capacity check passes and the name is free,
\* and one that owns 4 is answered 403 ProjectLimitExceeded without a record.
C18_CchCountsOneFewer ==
    /\ [][CchAllowance]_vars
    /\ [](resp.kind = "create" /\ is_cch_project(resp.name) =>
            /\ resp.body = "ProjectLimitExceeded" =>
                  resp.status = 403 /\ ~resp.can /\ resp.eff = <<>>
            /\ resp.can /\ resp.body \notin {"CapacityExhausted", "ProjectAlreadyExists"} =>
                  resp.status = 200 /\ resp.eff = <<"created", "enqueued">>)

\* the Basic account owns its three projects and one cch-class project, created
\* by a request that was answered 200, and its request for a second cch-class
\* project has been answered 403
C18_Witness ==
    /\ resp.kind = "create" /\ resp.user = "neo" /\ resp.name = "cch23-matrix"
    /\ resp.status = 403 /\ resp.body = "ProjectLimitExceeded"
    /\ projects["cch23-project"] # NoProject /\ projects["cch23-project"].owner = "neo"
    /\ projects["cch23-matrix"] = NoProject
    /\ get_project_count("neo") = 4

\* C19: a project created with a cch-class name has idle_minutes 5 in its
\* first state and in the response, whatever the request asked for and
\* whatever the caller's tier; any other project has the idle_minutes of the
\* request.
C19_CchIdleIsFive ==
    [][\A r \in ReqIds :
          /\ reqs[r].kind = "create" /\ reqs[r].pc = "create" /\ reqs'[r].pc = "send" =>
                LET n == reqs[r].name
                    want == IF is_cch_project(n) THEN 5 ELSE reqs[r].arg
                IN /\ projects[n] = NoProject /\ projects'[n] # NoProject
                   /\ projects'[n].state.tag = "Creating"
                   /\ projects'[n].idle = want
                   /\ reqs'[r].arg = want
          /\ reqs[r].kind = "create" /\ reqs[r].pc = "send" /\ reqs'[r].pc # "send" =>
                /\ resp'.status = 200
                /\ resp'.arg = reqs[r].arg
                /\ resp'.arg = projects[reqs[r].name].idle]_vars

\* the Pro account's cch-class project and the Basic account's have both been
\* created with an idle time of 5, which no request carried
C19_Witness ==
    /\ resp.kind = "create" /\ resp.status = 200 /\ resp.arg = 5
    /\ resp.user = "trinity" /\ is_cch_project(resp.name)
    /\ 5 \notin IdleArgs
    /\ \E n \in AllNames : projects[n] # NoProject /\ projects[n].owner = "neo"
                              /\ is_cch_project(n) /\ projects[n].idle = 5

----------------------------------------------------------------------------
(* delete_project on projects found Ready, Stopped, Destroyed and Errored    *)

\* the request leaves its wait for the restart task in this step
LeavesRestartWait(r) ==
    reqs[r].kind = "delete" /\ reqs[r].pc = "restart_wait" /\ reqs'[r].pc # "restart_wait"

\* C20: delete_project can succeed on a project found Ready, Stopped,
\* Destroyed or Errored. A project found neither Ready nor Stopped is
\* restarted first by a task of the request, and the request goes on only when
\* the task's handle has resolved; a Ready or Stopped project is not
\* restarted. When the project is not Ready after the restart the request
\* fails with ProjectCorrupted, having enqueued no destroy task, and the record
\* is still in the store.
C20_DeleteRestartsUndeletableFirst ==
    /\ [](resp.kind = "delete" /\ resp.found # "none" =>
            /\ resp.found \in {"Ready", "Stopped"} => ~Occurs(resp, "restart")
            /\ resp.found \notin {"Ready", "Stopped"} =>
                  /\ resp.eff # <<>> /\ resp.eff[1] = "restart"
                  /\ ~Occurs([eff |-> Tail(resp.eff)], "restart")
            /\ resp.status = 200 => Deleted(resp)
            /\ resp.body = "ProjectCorrupted" =>
                  /\ resp.status = 500
                  /\ resp.found \notin {"Ready", "Stopped"}
                  /\ resp.eff = <<"restart">>
                  /\ projects[resp.name] # NoProject)
    /\ [][\A r \in ReqIds : LeavesRestartWait(r) =>
            /\ reqs[r].resolved
            /\ UNCHANGED <<projects, queue>>
            /\ reqs'[r] = Req0 /\ resp'.body = "ProjectCorrupted"
                  <=> projects[reqs[r].name] # NoProject
                        /\ projects[reqs[r].name].state.tag # "Ready"]_vars

\* an Errored project has been restarted and then deleted
C20_Witness ==
    /\ resp.kind = "delete" /\ resp.found = "Errored"
    /\ resp.status = 200 /\ resp.body = "project successfully deleted"
    /\ resp.eff[1] = "restart" /\ Deleted(resp)
    /\ projects["matrix"] = NoProject

----------------------------------------------------------------------------
(* delete_project when the deployer refuses to delete a resource             *)

----------------------------------------------------------------------------
(* GET / while tasks are sent to the worker's channel and received from it   *)

\* how full the channel is at the start: empty, around the degraded mark, full
StartBacklogs ==
    {0, SVC_DEGRADED_THRESHOLD, WORKER_QUEUE_SIZE - 1, WORKER_QUEUE_SIZE}

InitStatus ==
    /\ InitEmptyStore
    /\ InitIdle
    /\ InitNoLoad
    /\ InitNoTls
    /\ InitNoDeployer
    /\ backlog \in StartBacklogs
    /\ closed = FALSE
    /\ health = "none"
    /\ paging = NoPaging
    /\ bounced = NoBounce
    /\ budget = MaxBudget

NextStatus ==
    \/ get_status
    \/ BacklogSend
    \/ BacklogRecv
    \/ WorkerStops

SpecStatus == InitStatus /\ [][NextStatus]_vars

\* C22: GET / reports the gateway unhealthy exactly when the task channel is
\* closed or has no capacity left, degraded exactly when it is open with a
\* capacity above 0 and below WORKER_QUEUE_SIZE - SVC_DEGRADED_THRESHOLD, and
\* healthy otherwise, whatever was sent, received or stopped before.
C22_StatusFollowsChannel ==
    [][budget' = budget - 1 /\ backlog' = backlog =>
          LET cap == WORKER_QUEUE_SIZE - Len(queue) - backlog
          IN /\ health' = "unhealthy" <=> closed \/ cap = 0
             /\ health' = "degraded" <=>
                   ~closed /\ cap > 0 /\ cap < WORKER_QUEUE_SIZE - SVC_DEGRADED_THRESHOLD
             /\ health' = "healthy" <=>
                   ~closed /\ cap >= WORKER_QUEUE_SIZE - SVC_DEGRADED_THRESHOLD]_vars

\* the third GET / is answered unhealthy by a stopped worker although its
\* channel has room for one more task
C22_Witness ==
    /\ health = "unhealthy" /\ closed
    /\ backlog = WORKER_QUEUE_SIZE - 1
    /\ budget = 0

----------------------------------------------------------------------------
(* The health scheduler at work: two projects, a channel that is empty or    *)
(* filled up to the degraded mark, and requests that send tasks of their own *)

AmbBacklogs ==
    {0, SVC_DEGRADED_THRESHOLD - 1, SVC_DEGRADED_THRESHOLD,
     WORKER_QUEUE_SIZE - SVC_DEGRADED_THRESHOLD - 1}

InitAmbulance ==
    /\ \E l \in {"Ready", "Stopped"} :
          /\ projects = [n \in AllNames |->
                CASE n = "matrix" -> ReadyProject("trinity")
                  [] n = "reloaded" -> ProjectRecord("trinity", Simple(l), 3)
                  [] OTHER -> NoProject]
          /\ container = [n \in AllNames |->
                CASE n = "matrix" -> "Running"
                  [] n = "reloaded" -> IF l = "Ready" THEN "Running" ELSE "Exited"
                  [] OTHER -> "NotFound"]
    /\ deployments = [n \in AllNames |-> NoDeployments]
    /\ resources = [n \in AllNames |-> {}]
    /\ InitIdle
    /\ InitNoLoad
    /\ InitNoTls
    /\ InitNoDeployer
    /\ backlog \in AmbBacklogs
    /\ closed = FALSE
    /\ health = "none"
    /\ paging = NoPaging
    /\ bounced = NoBounce
    /\ budget = MaxBudget

NextAmbulance ==
    \/ Ambulance
    \/ Worker
    \/ BacklogSend
    \/ \E r \in Solo, n \in Pair : DestroyProjectStart(r, "trinity", n)
    \/ \E r \in Solo : DestroyProjectSend(r)
    \/ \E n \in Pair : ContainerExit(n)

SpecAmbulance == InitAmbulance /\ [][NextAmbulance]_vars

\* the health-check tasks of the scheduler the worker has not finished yet
AmbTasks == {t \in LiveTasks : t.notify = AmbWaiter}

\* C23: health checks are serialized: at most one task of the scheduler is
\* outstanding at any time; the scheduler goes on to the next project only
\* when the handle of the task it sent has resolved, and it starts a round
\* only when no round is in progress.
C23_HealthChecksSerialized ==
    /\ [](/\ Cardinality(AmbTasks) <= 1
          /\ amb.pc # "wait" => AmbTasks = {}
          /\ amb.pc = "wait" => (amb.resolved <=> AmbTasks = {}))
    /\ [][/\ amb.pc = "wait" /\ amb'.pc # "wait" => amb.resolved /\ AmbTasks = {}
          /\ amb.pc = "idle" /\ amb'.pc # "idle" =>
                amb'.pc = "round" /\ amb.todo = {} /\ AmbTasks = {}
          /\ amb.pc = "wait" /\ amb'.pc = "idle" => amb.todo = {}]_vars

\* the scheduler waits for the health check of one project while another
\* project of the round still has to be checked and a task of a request is
\* in the channel
C23_Witness ==
    /\ amb.pc = "wait" /\ ~amb.resolved /\ amb.todo # {}
    /\ Cardinality(AmbTasks) = 1
    /\ \E i \in 1 .. Len(queue) : queue[i].notify # AmbWaiter

\* the scheduler's loop is at the tick and this step is the tick
AmbTicks == amb.pc = "idle" /\ amb' # amb

\* a round sends one task for each project it found Ready when it started
RoundChecksReadyOnce ==
    /\ AmbTicks /\ amb'.pc = "round" =>
          amb'.todo = iter_projects_ready /\ amb'.todo # {}
    /\ AmbTasks' # AmbTasks /\ AmbTasks' # {} =>
          \E n \in amb.todo :
             /\ amb'.todo = amb.todo \ {n}
             /\ \A t \in AmbTasks' : t.project = n
             /\ Len(queue') = Len(queue) + 1
    /\ amb.pc = "round" /\ amb' # amb => AmbTasks' # {}

----------------------------------------------------------------------------
(* The restart counter of Starting and Restarting                            *)

----------------------------------------------------------------------------
(* Paginated list requests over a store with two projects and up to two      *)
(* deployments                                                               *)

PageArgs == {Omitted} \cup 0 .. 3 \cup {U32_MAX}

LimitArgs == {Omitted, 0, 1, 2, Pow2(UBits - 1), U32_MAX}

InitPage ==
    /\ \E d1, d2 \in {"None", "Running"} :
          /\ projects = [n \in AllNames |->
                IF n \in Pair THEN StoppedProject("neo") ELSE NoProject]
          /\ deployments = [n \in AllNames |->
                IF n # "matrix" THEN NoDeployments
                ELSE [d \in DeploymentIds |->
                        IF d = 1 THEN d1 ELSE IF d = 2 THEN d2 ELSE "None"]]
    /\ container = [n \in AllNames |-> IF n \in Pair THEN "Exited" ELSE "NotFound"]
    /\ resources = [n \in AllNames |-> {}]
    /\ InitIdle
    /\ InitAux
    /\ InitNoLoad
    /\ budget = MaxBudget

NextPage ==
    \/ \E page \in PageArgs, limit \in LimitArgs, checked \in BOOLEAN :
          get_projects_list("neo", page, limit, checked)
    \/ \E n \in {"matrix", "project"}, page \in PageArgs, limit \in LimitArgs,
          checked \in BOOLEAN :
          get_deployments(n, page, limit, checked)

SpecPage == InitPage /\ [][NextPage]_vars

\* C26: for page N and limit M the store is queried with offset exactly
\* N * M and returns at most M items, for every N and M of the type and with
\* the default limit when it is omitted; the product never overflows or wraps.
C26_OffsetIsPageTimesLimit ==
    paging # NoPaging =>
        /\ ~paging.panicked
        /\ paging.offset = paging.page * paging.limit
        /\ paging.got <= paging.limit

----------------------------------------------------------------------------
(* The build queue when no build is ever released: grants are taken by       *)
(* POST /stats/load and leave only when their time to live has run out       *)

InitTtl ==
    /\ InitEmptyStore
    /\ InitIdle
    /\ InitAux
    /\ budget = MaxBudget
    /\ cpus \in CpuChoices
    /\ \E held \in SUBSET BuildIds :
          /\ Cardinality(held) <= capacity
          /\ running_builds = [b \in BuildIds |-> IF b \in held THEN "live" ELSE "none"]
    /\ load = NoLoad

NextTtl ==
    \/ \E id \in BuildIds : post_load(id)
    \/ get_load_admin
    \/ \E id \in BuildIds : ExpireBuild(id)

QueueFull == Cardinality(Live(running_builds)) >= capacity

\* a post_load that inserts a grant for a build that held none
Granted ==
    \E id \in BuildIds :
        /\ post_load(id)
        /\ Pruned(running_builds)[id] = "none"
        /\ running_builds'[id] = "live"
        /\ load'.has_capacity

\* time passes, so the time to live of every grant (60 * EXP_MINUTES seconds)
\* runs out; a builder that asks for a slot for a new build asks until it is
\* answered
FairTtl ==
    /\ \A id \in BuildIds : WF_vars(ExpireBuild(id))
    /\ WF_vars(Granted)

SpecTtl == InitTtl /\ [][NextTtl]_vars /\ FairTtl

\* C28: a grant that is never released stops counting once its time to live
\* has run out: from a full queue with no release, calculate_capacity
\* eventually reports has_capacity = true, a post_load that finds room is
\* granted, and new grants keep being issued.
C28_ExpiredGrantsFreeTheQueue ==
    /\ QueueFull ~> calculate_capacity(running_builds).has_capacity
    /\ [][\A id \in BuildIds :
            post_load(id) /\ calculate_capacity(running_builds).has_capacity
                => load'.has_capacity /\ running_builds'[id] = "live"]_vars
    /\ []<><<Granted>>_vars

\* the last post_load was refused by a full queue; since then no grant was
\* released, one has run out, and the queue has room again
C28_Witness ==
    /\ load # NoLoad
    /\ load.op = "post_load"
    /\ ~load.has_capacity
    /\ load.builds_count = capacity
    /\ \E id \in BuildIds : running_builds[id] = "expired"
    /\ calculate_capacity(running_builds).has_capacity

----------------------------------------------------------------------------
(* The certificate handlers when the project named in a request for a        *)
(* custom domain may have been destroyed                                     *)

InitAcme ==
    /\ \E st \in {"Ready", "Destroyed"} :
          /\ projects = [n \in AllNames |->
                IF n = "matrix"
                THEN ProjectRecord("neo", Simple(st), 3)
                ELSE NoProject]
          /\ container = [n \in AllNames |->
                IF n = "matrix" /\ st = "Ready" THEN "Running" ELSE "NotFound"]
    /\ deployments = [n \in AllNames |-> NoDeployments]
    /\ resources = [n \in AllNames |-> {}]
    /\ InitIdle /\ InitNoLoad /\ InitNoDeployer
    /\ budget = MaxBudget
    /\ now = 0
    /\ custom_domains \in [Fqdns -> StoredCerts \cup {NoCert}]
    /\ custom_domains["shuttle.dev"] = NoCert
    /\ ssl_pem = Cert(Days(31))
    /\ cert_resolver = [k \in Fqdns \cup {"default"} |->
                          IF k = "default" THEN ssl_pem ELSE custom_domains[k]]
    /\ tls = NoTls
    /\ InitChan

SpecAcme == InitAcme /\ [][NextTls]_vars

\* this step ends a call of one of the two custom-domain handlers for f
AcmeCallEnds(f) ==
    \/ tls' # tls /\ tls'.op = "renew_custom_domain" /\ tls'.fqdn = f
    \/ resp' # resp /\ resp'.kind = "custom_domain" /\ resp'.fqdn = f

\* the call that ends in this step was answered Internal for its ACME order
IssuanceFailed(f) ==
    \/ /\ tls' # tls /\ tls'.op = "renew_custom_domain" /\ tls'.fqdn = f
       /\ tls'.asked /\ tls'.status = 500
    \/ /\ resp' # resp /\ resp'.kind = "custom_domain" /\ resp'.fqdn = f
       /\ resp'.status = 500 /\ resp'.body = "Internal"

\* C29: when the ACME order of a custom-domain call fails, neither the stored
\* nor the served certificate of the fqdn changes; whenever such a call ends,
\* the stored and the served certificate of the fqdn are the same one.
C29_StoredAndServedAgree ==
    [][\A f \in Fqdns :
          AcmeCallEnds(f) =>
              /\ IssuanceFailed(f) =>
                    /\ custom_domains'[f] = custom_domains[f]
                    /\ cert_resolver'[f] = cert_resolver[f]
              /\ custom_domains'[f] = cert_resolver'[f]]_vars

----------------------------------------------------------------------------
(* What a proxy request that fails has done                                  *)

\* a step of the proxy handler for the request on connection r
ProxyStep(r) ==
    \/ \E host \in Hosts \cup {NoHost} : ProxyStart(r, host)
    \/ ProxyFind(r)
    \/ Woken(r) /\ reqs[r].kind = "proxy"
    \/ ProxyForward(r)

ProxyFailed(q) == q.kind = "proxy" /\ q.status >= 400

\* C30, as stated: a proxy request that ends in a failure response has
\* enqueued no task (and so has changed the state of no ProjectRecord).
C30_FailedProxyEnqueuesNothing ==
    ProxyFailed(resp) => ~Occurs(resp, "wake")

\* C30, amended: no step of the proxy handler writes a ProjectRecord or a
\* container; the only task a proxy request enqueues is the start task for a
\* project find_or_start_project found Stopped, sent before the request is
\* known to fail; a step that answers with a failure enqueues nothing; and a
\* request refused for its host has looked up and enqueued nothing.
C30_FailedProxyOnlyWakes ==
    /\ (ProxyFailed(resp)
          /\ resp.body \in {"BadHost", "InvalidProjectName", "CustomDomainNotFound"})
          => resp.eff = <<>>
    /\ [][\A r \in ReqIds :
            ProxyStep(r) =>
                /\ projects' = projects /\ container' = container
                /\ queue' # queue =>
                      /\ reqs[r].pc = "find"
                      /\ projects[reqs[r].name].state.tag = "Stopped"
                      /\ Len(queue') = Len(queue) + 1
                      /\ queue'[Len(queue')].steps = WakeSteps
                      /\ reqs'[r].pc = "wake_wait"
                /\ (resp' # resp /\ ProxyFailed(resp')) => queue' = queue]_vars

\* a request woke the stopped project, waited for the start task, and was
\* answered with a failure all the same
C30_Witness ==
    /\ ProxyFailed(resp)
    /\ resp.status \in {502, 503}
    /\ Occurs(resp, "wake")
    /\ projects["matrix"].state.tag # "Stopped"

----------------------------------------------------------------------------
(* The initial key of a project *)

\* C31: the initial key of a project is chosen at creation and never
\* rotated: as long as the record of the project exists, every step leaves
\* its initial key as it was (restart, idle and wake, and the destroy and
\* recreate of the custom-domain request included).
C31_InitialKeyNeverRotated ==
    [][\A n \in AllNames :
          projects[n] # NoProject /\ projects'[n] # NoProject
              => projects'[n].key = projects[n].key]_vars

----------------------------------------------------------------------------
(* The order in which the tasks of one project take effect *)

\* the task holds the slot of its project: it has run a step and has not
\* completed
HoldsSlot(t) == slot[t.project] = t.id

\* C32: tasks of one project take effect in enqueue order. A task that runs
\* holds the slot of its project; the slot is given up only when its holder
\* has completed; and a task takes a free slot only when no task of the same
\* project that was enqueued before it is still waiting. So no step of a task
\* runs before every task of its project enqueued earlier has completed, also
\* when the earlier task returned Pending and went to the tail of the channel.
C32_TasksOfAProjectInEnqueueOrder ==
    /\ \A t \in executing : HoldsSlot(t)
    /\ \A n \in AllNames :
          slot[n] # 0 => Cardinality({t \in LiveTasks : t.project = n /\ t.id = slot[n]}) = 1
    /\ [][\A n \in AllNames :
            /\ (slot[n] # 0 /\ slot'[n] # slot[n]) =>
                  /\ slot'[n] = 0
                  /\ ~\E t \in executing' \cup SeqToSet(queue') : t.id = slot[n]
            /\ (slot[n] = 0 /\ slot'[n] # 0) =>
                  \E i \in 1 .. Len(queue) :
                      /\ queue[i].id = slot'[n] /\ queue[i].project = n
                      /\ \A j \in 1 .. i - 1 : queue[j].project # n
            /\ \A t \in executing' \ executing : t.project = n => slot'[n] = t.id]_vars

\* a task that returned Pending waits at the tail of the channel, behind a
\* later task of the same project that has not started
C32_Witness ==
    \E i, j \in 1 .. Len(queue) :
        /\ i < j
        /\ queue[i].project = queue[j].project
        /\ ~HoldsSlot(queue[i])
        /\ HoldsSlot(queue[j])

----------------------------------------------------------------------------
(* Plain HTTP requests to the bouncer of a gateway with some custom domains  *)

Paths == {"/", "/index.html", "/a/b", "/search?q=1"}

InitBounce ==
    /\ InitEmptyStore
    /\ InitIdle
    /\ InitNoLoad
    /\ InitNoDeployer
    /\ budget = MaxBudget
    /\ now = 0
    /\ custom_domains \in [Fqdns -> {NoCert, Cert(Days(CertDays))}]
    /\ ssl_pem = Cert(Days(CertDays))
    /\ cert_resolver = [k \in Fqdns \cup {"default"} |->
                          IF k = "default" THEN ssl_pem ELSE custom_domains[k]]
    /\ tls = NoTls
    /\ InitChan

NextBounce == \E host \in Hosts \cup {NoHost}, path \in Paths : bounce(host, path)

SpecBounce == InitBounce /\ [][NextBounce]_vars

\* the host is under the public wildcard or is a stored custom domain
Redirected(host) ==
    \/ Len(host) >= Len(public)
       /\ \A i \in 1 .. Len(public) : host[Len(host) - Len(public) + i] = public[i]
    \/ \E f \in Fqdns : to_string(host) = f /\ custom_domains[f] # NoCert

\* C33: every request that reaches the bouncer (and is no ACME challenge)
\* gets a response, a request without a Host header included: 301 with
\* Location https://{host}{path} when the host is under the public wildcard
\* or a known custom domain, 404 otherwise.
C33_BouncerAlwaysResponds ==
    bounced # NoBounce =>
        /\ ~bounced.panicked
        /\ bounced.status \in {301, 404}
        /\ bounced.host # NoHost =>
              IF Redirected(bounced.host)
              THEN /\ bounced.status = 301
                   /\ bounced.location = Location(bounced.host, bounced.path)
              ELSE bounced.status = 404

----------------------------------------------------------------------------
(* The task of the custom-domain request *)

\* a task built by request_custom_domain_acme_certificate
IsDomainTask(t) == t.fqdn # "none"

TheChain ==
    <<"destroy", "run_until_done", "create_with_fqdn", "run_until_done",
      "start_idle_deploys">>

\* what is left of a task built from TheChain after some of its steps
RestOfChain(steps) ==
    \E k \in 0 .. Len(TheChain) :
        steps = SubSeq(Build(TheChain), k + 1, Len(TheChain) + 1)

\* the task t has been polled in this step
Polled(t) == t \in executing /\ t \notin executing'

\* the task t has completed in this step
Completed(t) ==
    Polled(t) /\ ~\E u \in SeqToSet(queue') : u.id = t.id

\* the chain in order, one step after the other, nothing of the same project
\* in between
ChainInOrder ==
    /\ \A t \in LiveTasks : IsDomainTask(t) => RestOfChain(t.steps)
    /\ \A t \in LiveTasks :
          IsDomainTask(t) /\ HoldsSlot(t)
              => \A u \in executing : u.project = t.project => u = t
    /\ [][/\ \A r \in ReqIds :
               RequestCustomDomainSend(r) =>
                   /\ Len(queue') = Len(queue) + 1
                   /\ SubSeq(queue', 1, Len(queue)) = queue
                   /\ queue'[Len(queue')].project = reqs[r].name
                   /\ queue'[Len(queue')].fqdn = reqs[r].fqdn
                   /\ SubSeq(queue'[Len(queue')].steps, 1, Len(TheChain)) = TheChain
          /\ \A t \in executing :
               IsDomainTask(t) /\ Polled(t) /\ ~Completed(t) =>
                   \E u \in SeqToSet(queue') :
                       /\ u.id = t.id
                       /\ u.steps \in {t.steps, Tail(t.steps)}
                       /\ u.steps # t.steps => projects[t.project] # NoProject
          /\ \A t \in LiveTasks :
               (IsDomainTask(t) /\ HoldsSlot(t) /\ projects[t.project] # NoProject
                  /\ projects'[t.project] # projects[t.project])
                   => /\ Polled(t)
                      /\ projects'[t.project] # NoProject
                      /\ projects'[t.project].idle = projects[t.project].idle
                      /\ projects'[t.project].owner = projects[t.project].owner]_vars

----------------------------------------------------------------------------
(* The layer, span by span: scopes that carry one of the two fields, both or *)
(* none, with values that parse and values that do not                       *)

IdFields == {1, Nil, NotAUuid, NoIdField}

StateFields == {"Queued", "Running", "running?", NoStateField}

NextLayer ==
    \E id_field \in IdFields, state_field \in StateFields, ok \in BOOLEAN :
        NewSpan(id_field, state_field, ok)

SpecLayer == InitDeployer /\ [][NextLayer]_vars

\* C35: every new span that carries a state field and a deployment_id that
\* is a UUID other than nil hands exactly one DeploymentStateUpdate to the
\* state recorder and exactly one LogItem to the log recorder, both for that
\* deployment; when record_state fails the one LogItem is the error line; a
\* span that lacks one of the two fields hands over neither.
C35_OneUpdateAndOneLogItemPerSpan ==
    [][spans' # spans =>
         LET sp == spans'[Len(spans')]
         IN /\ spans' = Append(spans, sp)
            /\ IF Parseable(sp)
               THEN /\ sp.res \in {"Ok", "Err"}
                    /\ states' = Append(states, [id |-> sp.id,
                                                 state |-> from_str(sp.state)])
                    /\ logs' = Append(logs,
                                      [id |-> sp.id,
                                       line |-> IF sp.res = "Ok"
                                                THEN "Entering state"
                                                ELSE "failed while recording"])
               ELSE /\ sp.res = "none"
                    /\ UNCHANGED <<states, logs>>]_vars

\* the layer has seen a span whose state was recorded, one whose recording
\* failed, one with a deployment_id and no state field and one with a state
\* field and no deployment_id
C35_Witness ==
    /\ \E i, j \in 1 .. Len(spans) :
          /\ spans[i].res = "Ok"
          /\ spans[j].res = "Err"
    /\ \E i, j \in 1 .. Len(spans) :
          /\ spans[i].id \in DeploymentIds /\ spans[i].state = NoStateField
          /\ spans[j].id = NoIdField /\ spans[j].state # NoStateField
    /\ Len(states) = 2
    /\ \E k \in 1 .. Len(logs) : logs[k].line = "failed while recording"

----------------------------------------------------------------------------
(* Routing to a project that runs *)

\* C36: the budget of running containers gates only start and wake: a
\* route_project request of the project's owner to a project that is Ready is
\* never answered 503 CapacityExhausted, whatever the count of running
\* projects is.
C36_RouteToReadyNeverGated ==
    [][Arrival("route") =>
          LET q == Arrived
          IN StateIs(q.name, "Ready") /\ Scoped(q.user, q.name) => ~Rejected(q)]_vars

----------------------------------------------------------------------------
(* The budget of running containers under concurrent requests: two projects  *)
(* run, a third is stopped, and a Pro account wakes it and creates a fourth  *)
(* while the worker runs the tasks, idle stops included                      *)

InitBudget ==
    /\ projects = [n \in AllNames |->
          CASE n \in Pair -> ReadyProject("trinity")
            [] n = "resurrections" -> StoppedProject("trinity")
            [] OTHER -> NoProject]
    /\ container = [n \in AllNames |->
          CASE n \in Pair -> "Running"
            [] n = "resurrections" -> "Exited"
            [] OTHER -> "NotFound"]
    /\ deployments = [n \in AllNames |-> NoDeployments]
    /\ resources = [n \in AllNames |-> {}]
    /\ InitIdle
    /\ InitAux
    /\ InitNoLoad
    /\ budget = MaxBudget

NextBudget ==
    \/ \E r \in ReqIds : CreateProjectStart(r, "trinity", "project", 3)
    \/ \E r \in ReqIds : CreateProjectCapacity(r)
    \/ \E r \in ReqIds : CreateProjectCreate(r)
    \/ \E r \in ReqIds : CreateProjectSend(r)
    \/ \E r \in ReqIds : RouteProjectStart(r, "trinity", "resurrections", 0)
    \/ \E r \in ReqIds : RouteProjectFind(r)
    \/ \E r \in ReqIds : Woken(r)
    \/ \E r \in ReqIds : RouteProjectForward(r)
    \/ Worker

SpecBudget == InitBudget /\ [][NextBudget]_vars

\* the containers the runtime runs
running_containers == Cardinality({n \in AllNames : container[n] = "Running"})

\* C37: whatever the interleaving of create_project and route_project (wake)
\* requests of callers that are no admins with idle stops, the number of
\* running containers never exceeds the hard limit.
C37_RunningWithinHardLimit == running_containers <= HardLimit

----------------------------------------------------------------------------
(* The grants of the build queue *)

\* the grants that have not expired
live_grants(rb) == Cardinality(Live(rb))

\* C38: after any interleaving of post_load, delete_load, delete_load_admin
\* and expiries the live grants are at most the capacity; post_load adds a
\* grant for an id that holds none only when the live grants are below the
\* capacity, and for an id that holds a live grant it leaves the number of
\* live grants as it is.
C38_LiveGrantsWithinCapacity ==
    /\ [](live_grants(running_builds) <= capacity)
    /\ [][\A id \in BuildIds :
            post_load(id) =>
                live_grants(running_builds') =
                    IF running_builds[id] # "live"
                          /\ live_grants(running_builds) < capacity
                    THEN live_grants(running_builds) + 1
                    ELSE live_grants(running_builds)]_vars

\* a queue of more than one place is full and the last post_load found it
\* full and was refused
C38_Witness ==
    /\ live_grants(running_builds) = capacity
    /\ capacity > 1
    /\ load # NoLoad /\ load.op = "post_load" /\ ~load.has_capacity
    /\ load.before = capacity

----------------------------------------------------------------------------
(* A delete of the project while its owner deploys to it: the project runs   *)
(* or is stopped, with one deployment that runs, has crashed, or with none   *)

InitDeploy ==
    /\ \E d1 \in {"None", "Running", "Crashed"} :
          deployments = [n \in AllNames |->
                IF n # "matrix" THEN NoDeployments
                ELSE [d \in DeploymentIds |-> IF d = 1 THEN d1 ELSE "None"]]
    /\ \E st \in {"Ready", "Stopped"} :
          /\ projects = [n \in AllNames |->
                IF n = "matrix" THEN ProjectRecord("neo", Simple(st), 3) ELSE NoProject]
          /\ container = [n \in AllNames |->
                IF n # "matrix" THEN "NotFound"
                ELSE IF st = "Ready" THEN "Running" ELSE "Exited"]
    /\ resources = [n \in AllNames |-> {}]
    /\ InitIdle
    /\ InitAux
    /\ InitNoLoad
    /\ budget = MaxBudget

NextDeploy ==
    \/ \E r \in ReqIds : DeleteProjectStart(r, "neo", "matrix", FALSE)
    \/ DeleteProjectSteps
    \/ \E r \in ReqIds : RouteProjectStart(r, "neo", "matrix", 1)
    \/ \E r \in ReqIds : RouteProjectFind(r)
    \/ \E r \in ReqIds : RouteProjectForward(r)
    \/ Worker

SpecDeploy == InitDeploy /\ [][NextDeploy]_vars

\* the states of a deployment that is still in the pipeline or runs
InPipelineOrRunning == {"Queued", "Building", "Built", "Loading", "Running"}

\* C39: when delete_project removes the record of a project, no deployment
\* of that project is Queued, Building, Built, Loading or Running, also when
\* deploy requests are accepted while the delete is under way.
C39_NoLiveDeploymentAtRemoval ==
    [][\A n \in AllNames :
          projects[n] # NoProject /\ projects'[n] = NoProject =>
              \A d \in DeploymentIds : deployments[n][d] \notin InPipelineOrRunning]_vars

----------------------------------------------------------------------------
(* The deployments of a project as the command line lists them, page by page *)

CliPages == 0 .. 3

CliLimits == 0 .. 3 \cup {U32_MAX}

NextCli ==
    \/ \E page \in CliPages, limit \in CliLimits, checked \in BOOLEAN :
          deployments_list("matrix", page, limit, checked)
    \/ \E page \in PageArgs, limit \in LimitArgs, checked \in BOOLEAN :
          get_deployments("matrix", page, limit, checked)

SpecCli == InitPage /\ [][NextCli]_vars

\* the positions of rows rows from position first on
Rows(first, rows) == first .. first + rows - 1

\* C40: with a limit L >= 1, page k of the listing shows the deployments at
\* the zero-based positions (k-1)*L to k*L-1 of the deployer's ordering (as
\* many of them as exist), so that consecutive pages leave no gap and repeat
\* nothing.
C40_PagesTileTheList ==
    (/\ paging # NoPaging
     /\ paging.route = "deployments_list"
     /\ paging.limit >= 1
     /\ paging.page >= 1)
        => /\ ~paging.panicked
           /\ Rows(paging.offset, paging.got)
                 = Rows((paging.page - 1) * paging.limit,
                        page_of(paging.total, (paging.page - 1) * paging.limit,
                                paging.limit))

====
